---- MODULE Spec2Model ----
(***************************************************************************)
(* A model of ztkent/ai-util: the token-budgeted Conversation of          *)
(* pkg/aiutil, the retry controller WithRetry, the Conversation of the    *)
(* provider-based client (TruncateToFit, Send, SendStream) and the        *)
(* Stream/Complete methods of the provider adapters.                      *)
(***************************************************************************)
EXTENDS Integers, Sequences, FiniteSets, TLC

(***************************************************************************)
(* Bounds of the model.                                                    *)
(***************************************************************************)
\* Append calls made on one pkg/aiutil conversation
MaxAppends == 3
\* largest MaxAttempts a caller's RetryConfig asks for
MaxAttemptsInput == 3
\* messages added to one client conversation before it is truncated
MaxConvMessages == 3
\* chunks a backend sends for one streamed completion
MaxChunks == 2
\* Send and SendStream calls made on one client conversation
MaxSends == 1
\* RegisterProvider calls made on one Client
MaxRegistrations == 2
\* requests dispatched through getProviderForModel on one Client
MaxDispatches == 2
\* SendCompletionRequest, SendStreamRequest and SeedConversation calls made on
\* one pkg/aiutil conversation
MaxLegacyCalls == 1
\* middleware registered in one ClientConfig
MaxMiddleware == 2
\* Complete and Stream calls made on one Client
MaxCalls == 1
\* Message objects allocated in the aliasing model
MaxMessageObjects == 2
\* writes the caller makes through a returned value
MaxCallerWrites == 2
\* chunks or events one stream delivers
MaxStreamEvents == 2

(***************************************************************************)
(* Program constants.                                                      *)
(***************************************************************************)
DefaultMaxTokens == 100000
\* DefaultRetryConfig and the fallbacks inside WithRetry, in seconds
DefaultMaxAttempts == 5
DefaultBaseDelay == 2
DefaultMaxDelay == 30
\* ParseRateLimitDelay's delay when no suggested time can be parsed
RateLimitDefaultDelay == 30
\* the buffer WithRetry adds to a suggested delay
SuggestedDelayBuffer == 1
\* Client.NewConversation's budget when the config gives none
DefaultConvMaxTokens == 4096
\* the adapters' estimate: about four characters per token
CharsPerToken == 4

VARIABLES
    \* ---- pkg/aiutil Conversation (src/pkg/aiutil/conversation.go)
    Messages,       \* c.Messages
    TokenCount,     \* c.TokenCount
    MaxTokens,      \* c.MaxTokens
    mutex,          \* c.Mutex: "free" or the goroutine holding it
    appPc,          \* position of each goroutine inside Append
    appMsg,         \* Append's argument m
    tokCount,       \* Append's local tokCount
    appRet,         \* what the goroutine's last Append returned
    appSnap,        \* history: Messages and TokenCount when Append took the lock
    okLog,          \* history: the Appends that returned nil, in order
    nAppends,       \* history: Append calls made so far
    \* ---- WithRetry (src/unnamed/part_016)
    config,         \* the RetryConfig in use (the default one when nil was passed)
    rPc,            \* "call": about to invoke fn, "wait": in the select, "done"
    attempt,        \* loop variable attempt
    delay,          \* local delay, in seconds
    fallbackIndex,  \* local fallbackIndex
    reqModel,       \* req.Model
    lastErr,        \* local lastErr
    rResult,        \* what WithRetry returned
    ctxDone,        \* the caller's context is cancelled
    timerMayWin,    \* the select can still take the time.After branch
    cancelledInWait,\* history: the context was cancelled while the select blocked
    calls,          \* history: the invocations of fn, model and outcome
    waits,          \* history: the delays WithRetry started to wait for
    \* ---- client Conversation (src/conversation.go)
    cMessages,      \* c.Messages
    estimatedTokens,\* c.estimatedTokens
    cMaxTokens,     \* c.MaxTokens
    nextID,         \* history: identity given to the next message created
    truncLast,      \* history: the last TruncateToFit call, its input and result
    sendPc,         \* "idle", "complete" (in client.Complete), "stream", "returned"
    sendUserID,     \* history: identity of the user message the call added
    sendErr,        \* what Send or SendStream returned
    fullResponse,   \* SendStream's fullResponse
    nSends,         \* history: Send and SendStream calls made so far
    \* ---- provider adapters (src/providers)
    adapter,        \* which adapter serves the request
    backend,        \* the chunks the deterministic backend produces for it
    predStatus,     \* Replicate: prediction.Status when Wait returns
    sPc,            \* Stream: "open", "recv", "done"
    sPos,           \* Stream: the next backend chunk
    delivered,      \* history: the StreamResponses handed to the callback
    sResult,        \* what Stream returned
    cbFailedAt,     \* history: the callback invocation that returned an error, or 0
    completeRet,    \* what Complete returned for the same request
    \* ---- Client (src/client.go)
    providers,      \* c.providers: name -> provider, NoProvider where unset
    modelIndex,     \* c.modelRegistry.models, as the set of the models in it
    clientConfig,   \* c.defaultConfig: DefaultProvider and the ProviderConfigs names
    mu,             \* c.mu: "free" or "writer"
    regPc,          \* RegisterProvider: "idle" or "models" (holding c.mu)
    regCur,         \* RegisterProvider: the provider being registered
    regTodo,        \* RegisterProvider: models still to put into the index
    regLast,        \* history: the last RegisterProvider call and its result
    nRegs,          \* history: RegisterProvider calls made
    dPc,            \* dispatch: "idle", "getProvider" or "crashed"
    dModel,         \* dispatch: the model id looked up
    dName,          \* dispatch: the provider name getProviderForModel resolved
    dLast,          \* history: the last getProviderForModel call and its result
    nDispatches,    \* history: requests dispatched
    reads,          \* history: the reads dispatch made of the shared structures
    \* ---- OAIClient and R8Client (src/client_openai.go, src/client_replicate.go)
    lPc,            \* "idle", "stream" (SendStreamRequest receiving) or "seed"
    lClient,        \* the client of the call: "oai" or "r8"
    lBuilder,       \* SendStreamRequest's responseBuilder
    lTodo,          \* SeedConversation: the pairs of the map not yet visited
    lLast,          \* history: the last call, the messages before it and its result
    lSeeded,        \* history: what the two Appends of each seeded pair returned
    nLegacy,        \* history: calls made so far
    \* ---- Client.Complete and Client.Stream (src/client.go)
    kConfig,        \* c.defaultConfig: the defaults and the middleware list
    kPc,            \* "idle", "request", "provider" or "response"
    kOp,            \* "complete" or "stream"
    kReq,           \* the request as the caller passed it
    kCur,           \* req, then processedReq
    kProv,          \* the name of the provider getProviderForModel returned
    kIdx,           \* the middleware the running loop is at
    kResp,          \* resp, as the provider and the middleware left it
    kLog,           \* history: the middleware and provider invocations, in order
    kRet,           \* what the call returned
    nCalls,         \* history: Complete and Stream calls made
    \* ---- the messages of a client Conversation as Go values (src/conversation.go)
    objs,           \* the types.Message objects allocated so far, by address
    rMessages,      \* c.Messages: a slice of addresses
    got,            \* what the caller holds from GetMessages or GetLastMessage
    rLast,          \* history: the last step, with both values before and after it
    nWrites,        \* history: writes the caller made through what it holds
    \* ---- SendStreamRequest and its channels (src/client_openai.go, src/client_replicate.go)
    hClient,        \* which SendStreamRequest runs
    hPc,            \* the call: "start", "recv", "wait", "append", "return", ...
    goPc,           \* R8Client's goroutine: "none", "loop" or "exited"
    responseChan,   \* closed or not; history: closes, sends, sends after the close
    errChan,        \* the same for errChan
    streamErrChan,  \* R8Client: the buffered channel between goroutine and call
    evNil,          \* R8Client: streamEventChan == nil
    errNil,         \* R8Client: streamErrFromChan == nil
    hEvents,        \* history: chunks or events the stream delivered
    streamCtxDone,  \* ctx is cancelled
    panicked,       \* a send on a closed channel panicked: the process is gone
    seenClosed,     \* the channels the consumer has seen closed
    \* ---- concurrent SendCompletionRequest calls on one conversation
    qPc,            \* each goroutine's call: "idle", "provider" or "returned"
    qOwners,        \* history: for each message of Messages, the call that appended it
    qLast           \* history: the last compensating removal and whose message went

appVars == <<Messages, TokenCount, MaxTokens, mutex, appPc, appMsg, tokCount,
             appRet, appSnap, okLog, nAppends>>

retryVars == <<config, rPc, attempt, delay, fallbackIndex, reqModel, lastErr,
               rResult, ctxDone, timerMayWin, cancelledInWait, calls, waits>>

convVars == <<cMessages, estimatedTokens, cMaxTokens, nextID, truncLast>>

sendVars == <<sendPc, sendUserID, sendErr, fullResponse, nSends>>

streamVars == <<adapter, backend, predStatus, sPc, sPos, delivered, sResult,
                cbFailedAt, completeRet>>

clientVars == <<providers, modelIndex, clientConfig, mu, regPc, regCur, regTodo,
                regLast, nRegs, dPc, dModel, dName, dLast, nDispatches, reads>>

legacyVars == <<lPc, lClient, lBuilder, lTodo, lLast, lSeeded, nLegacy>>

callVars == <<kConfig, kPc, kOp, kReq, kCur, kProv, kIdx, kResp, kLog, kRet, nCalls>>

readVars == <<objs, rMessages, got, rLast, nWrites>>

chanVars == <<hClient, hPc, goPc, responseChan, errChan, streamErrChan, evNil,
              errNil, hEvents, streamCtxDone, panicked, seenClosed>>

concVars == <<qPc, qOwners, qLast>>

lateVars == <<readVars, chanVars, concVars>>

vars == <<appVars, retryVars, convVars, sendVars, streamVars, clientVars, legacyVars,
          callVars, lateVars>>

otherThanApp == <<retryVars, convVars, sendVars, streamVars, clientVars, legacyVars,
                   callVars, lateVars>>
otherThanRetry == <<appVars, convVars, sendVars, streamVars, clientVars, legacyVars,
                   callVars, lateVars>>
otherThanConv == <<appVars, retryVars, sendVars, streamVars, clientVars, legacyVars,
                   callVars, lateVars>>
otherThanStream == <<appVars, retryVars, convVars, sendVars, clientVars, legacyVars,
                   callVars, lateVars>>
otherThanSend == <<appVars, retryVars, clientVars, legacyVars,
                   callVars, lateVars>>
otherThanClient == <<appVars, retryVars, convVars, sendVars, streamVars, legacyVars,
                   callVars, lateVars>>
otherThanLegacy == <<retryVars, convVars, sendVars, streamVars, clientVars, callVars,
                     lateVars>>
otherThanCall == <<appVars, retryVars, convVars, sendVars, streamVars, clientVars,
                   legacyVars, lateVars>>
earlyVars == <<appVars, retryVars, convVars, sendVars, streamVars, clientVars,
               legacyVars, callVars>>
otherThanRead == <<earlyVars, chanVars, concVars>>
otherThanChan == <<earlyVars, readVars, concVars>>
otherThanConc == <<retryVars, convVars, sendVars, streamVars, clientVars, legacyVars,
                   callVars, readVars, chanVars>>

(***************************************************************************)
(* pkg/aiutil: messages and the token estimate.                            *)
(* A text is the sequence of tokens the cl100k_base encoder yields for it. *)
(***************************************************************************)
RoleSystem == "system"
RoleUser == "user"
RoleAssistant == "assistant"

PartText == "text"
PartImageURL == "image_url"

NoParts == << >>

\* openai.ChatCompletionMessage: Role, Content, MultiContent
ChatMessage(role, content, parts) ==
    [Role |-> role, Content |-> content, MultiContent |-> parts]

\* the messages goroutines append
AppendInputs ==
    { ChatMessage(RoleUser, << >>, NoParts),
      ChatMessage(RoleUser, <<"a">>, NoParts),
      ChatMessage(RoleAssistant, <<"a", "b">>, NoParts),
      ChatMessage(RoleUser, <<"a">>, <<[Type |-> PartText, Text |-> <<"b">>]>>),
      ChatMessage(RoleUser, << >>, <<[Type |-> PartImageURL, Text |-> <<"a">>]>>) }

SystemPrompts == { << >>, <<"a">>, <<"a", "b", "c">> }

MaxTokensInputs == { -1, 0, 2, 3 }

Goroutines == { "g1", "g2" }

\* the content string EstimateMessageTokens builds: Content, then every text part
RECURSIVE PartsText(_)
PartsText(parts) ==
    IF parts = << >> THEN << >>
    ELSE (IF Head(parts).Type = PartText THEN Head(parts).Text ELSE << >>)
         \o PartsText(Tail(parts))

\* len(tke.Encode(content, nil, nil))
EstimateMessageTokens(m) == Len(m.Content \o PartsText(m.MultiContent))

RECURSIVE SumTokens(_)
SumTokens(msgs) ==
    IF msgs = << >> THEN 0
    ELSE EstimateMessageTokens(Head(msgs)) + SumTokens(Tail(msgs))

ErrNone == "none"
ErrNil == "nil"
ErrEncoding == "Failed to get encoding"
ErrMaxTokens == "Max tokens exceeded"

\* NewConversation(systemPrompt, maxTokens, ragEnabled)
NewConversation(systemPrompt, maxTokens) ==
    /\ Messages = << ChatMessage(RoleSystem, systemPrompt, NoParts) >>
    /\ TokenCount = 0
    /\ MaxTokens = IF maxTokens = 0 THEN DefaultMaxTokens ELSE maxTokens

\* the conversation while another component is examined
AppIdle ==
    /\ NewConversation(<< >>, 0)
    /\ mutex = "free"
    /\ appPc = [g \in Goroutines |-> "idle"]
    /\ appMsg = [g \in Goroutines |-> ChatMessage(RoleUser, << >>, NoParts)]
    /\ tokCount = [g \in Goroutines |-> 0]
    /\ appRet = [g \in Goroutines |-> ErrNone]
    /\ appSnap = [g \in Goroutines |-> [Messages |-> << >>, TokenCount |-> 0]]
    /\ okLog = << >>
    /\ nAppends = 0

AppInit ==
    /\ \E sp \in SystemPrompts, mt \in MaxTokensInputs : NewConversation(sp, mt)
    /\ mutex = "free"
    /\ appPc = [g \in Goroutines |-> "idle"]
    /\ appMsg = [g \in Goroutines |-> ChatMessage(RoleUser, << >>, NoParts)]
    /\ tokCount = [g \in Goroutines |-> 0]
    /\ appRet = [g \in Goroutines |-> ErrNone]
    /\ appSnap = [g \in Goroutines |-> [Messages |-> << >>, TokenCount |-> 0]]
    /\ okLog = << >>
    /\ nAppends = 0

\* a goroutine calls c.Append(m)
AppendCall(g, m) ==
    /\ appPc[g] = "idle"
    /\ nAppends < MaxAppends
    /\ nAppends' = nAppends + 1
    /\ appPc' = [appPc EXCEPT ![g] = "lock"]
    /\ appMsg' = [appMsg EXCEPT ![g] = m]
    /\ appRet' = [appRet EXCEPT ![g] = ErrNone]
    /\ UNCHANGED <<Messages, TokenCount, MaxTokens, mutex, tokCount, appSnap, okLog>>

\* c.Lock() taken without waiting for the holder
AppendLock_NoMutex(g) ==
    /\ appPc[g] = "lock"
    /\ mutex' = g
    /\ appSnap' = [appSnap EXCEPT ![g] =
                     [Messages |-> Messages, TokenCount |-> TokenCount]]
    /\ appPc' = [appPc EXCEPT ![g] = "estimate"]
    /\ UNCHANGED <<Messages, TokenCount, MaxTokens, appMsg, tokCount, appRet,
                   okLog, nAppends>>

\* c.Lock()
AppendLock(g) ==
    /\ appPc[g] = "lock"
    /\ mutex = "free"
    /\ mutex' = g
    /\ appSnap' = [appSnap EXCEPT ![g] =
                     [Messages |-> Messages, TokenCount |-> TokenCount]]
    /\ appPc' = [appPc EXCEPT ![g] = "estimate"]
    /\ UNCHANGED <<Messages, TokenCount, MaxTokens, appMsg, tokCount, appRet,
                   okLog, nAppends>>

\* tokCount, err := EstimateMessageTokens(m); if err != nil { return err }
AppendEstimate(g) ==
    /\ appPc[g] = "estimate"
    /\ \/ /\ tokCount' = [tokCount EXCEPT ![g] = EstimateMessageTokens(appMsg[g])]
          /\ appPc' = [appPc EXCEPT ![g] = "check"]
          /\ UNCHANGED appRet
       \/ \* tiktoken.GetEncoding failed
          /\ tokCount' = [tokCount EXCEPT ![g] = 0]
          /\ appRet' = [appRet EXCEPT ![g] = ErrEncoding]
          /\ appPc' = [appPc EXCEPT ![g] = "unlock"]
    /\ UNCHANGED <<Messages, TokenCount, MaxTokens, mutex, appMsg, appSnap,
                   okLog, nAppends>>

\* the budget check, appending the message before it rejects
AppendCheck_CommitFirst(g) ==
    /\ appPc[g] = "check"
    /\ IF TokenCount + tokCount[g] > MaxTokens
       THEN /\ appRet' = [appRet EXCEPT ![g] = ErrMaxTokens]
            /\ appPc' = [appPc EXCEPT ![g] = "unlock"]
            /\ Messages' = Append(Messages, appMsg[g])
       ELSE /\ appPc' = [appPc EXCEPT ![g] = "commitCount"]
            /\ UNCHANGED <<appRet, Messages>>
    /\ UNCHANGED <<TokenCount, MaxTokens, mutex, appMsg, tokCount, appSnap,
                   okLog, nAppends>>

\* attemptedTokens := c.TokenCount + tokCount; if attemptedTokens > c.MaxTokens { return err }
AppendCheck(g) ==
    /\ appPc[g] = "check"
    /\ IF TokenCount + tokCount[g] > MaxTokens
       THEN /\ appRet' = [appRet EXCEPT ![g] = ErrMaxTokens]
            /\ appPc' = [appPc EXCEPT ![g] = "unlock"]
       ELSE /\ appPc' = [appPc EXCEPT ![g] = "commitCount"]
            /\ UNCHANGED appRet
    /\ UNCHANGED <<Messages, TokenCount, MaxTokens, mutex, appMsg, tokCount,
                   appSnap, okLog, nAppends>>

\* c.TokenCount += tokCount
AppendCommitCount(g) ==
    /\ appPc[g] = "commitCount"
    /\ TokenCount' = TokenCount + tokCount[g]
    /\ appPc' = [appPc EXCEPT ![g] = "commitMsg"]
    /\ UNCHANGED <<Messages, MaxTokens, mutex, appMsg, tokCount, appRet,
                   appSnap, okLog, nAppends>>

\* c.Messages = append(c.Messages, m); return nil
AppendCommitMsg(g) ==
    /\ appPc[g] = "commitMsg"
    /\ Messages' = Append(Messages, appMsg[g])
    /\ appRet' = [appRet EXCEPT ![g] = ErrNil]
    /\ appPc' = [appPc EXCEPT ![g] = "unlock"]
    /\ UNCHANGED <<TokenCount, MaxTokens, mutex, appMsg, tokCount, appSnap,
                   okLog, nAppends>>

\* defer c.Unlock(), and Append returns
AppendUnlock(g) ==
    /\ appPc[g] = "unlock"
    /\ mutex' = "free"
    /\ appPc' = [appPc EXCEPT ![g] = "idle"]
    /\ okLog' = IF appRet[g] = ErrNil
                THEN Append(okLog, [by |-> g, m |-> appMsg[g]])
                ELSE okLog
    /\ UNCHANGED <<Messages, TokenCount, MaxTokens, appMsg, tokCount, appRet,
                   appSnap, nAppends>>

(***************************************************************************)
(* WithRetry (src/unnamed/part_016).                                       *)
(* An error text is the set of the fragments it contains; the classifiers  *)
(* look for fragments with strings.Contains. Durations are in seconds.     *)
(***************************************************************************)
\* the classifier patterns that occur inside a longer fragment
PatternsWithin(f) ==
    CASE f = "authentication_failed" -> { "authentication" }
      [] OTHER -> { }

\* strings.Contains(errStr, pattern)
Contains(errStr, pattern) ==
    \E f \in errStr : f = pattern \/ pattern \in PatternsWithin(f)

\* strings.ToLower on one fragment
LowerFragment(f) ==
    CASE f = "Quota" -> "quota"
      [] f = "Rate" -> "rate"
      [] f = "AUTHENTICATION_FAILED" -> "authentication_failed"
      [] f = "INVALID_REQUEST" -> "invalid_request"
      [] f = "MODEL_NOT_FOUND" -> "model_not_found"
      [] f = "TOKEN_LIMIT_EXCEEDED" -> "token_limit_exceeded"
      [] f = "Invalid API key" -> "invalid api key"
      [] OTHER -> f

\* strings.ToLower(err.Error())
ToLower(errStr) == { LowerFragment(f) : f \in errStr }

\* the errors fn returns
ErrAuthentication == { "authentication" }
ErrNotFoundQuota == { "not found", "quota" }
ErrRateLimitedRetryIn == { "429", "retry in 3s" }
ErrRateRetryInZero == { "rate", "retry in 0s" }
ErrServer == { "503" }
ErrUnknown == { "boom" }
ErrQuota == { "quota" }
ErrQuotaCapital == { "Quota" }
NoError == { }

\* the taxonomy codes of types.Error that are always surfaced to the caller
ErrCodeAuthentication == "AUTHENTICATION_FAILED"
ErrCodeModelNotFound == "MODEL_NOT_FOUND"
ErrCodeInvalidRequest == "INVALID_REQUEST"
ErrCodeTokenLimitExceeded == "TOKEN_LIMIT_EXCEEDED"

\* types.NewError(code, message, provider).Error(): "[provider] code: message",
\* or "code: message" without a provider
NewError(code, message, provider) ==
    { code, message } \cup (IF provider # "" THEN { provider } ELSE { })

\* the taxonomy errors the library builds
ErrInvalidAPIKey == NewError(ErrCodeAuthentication, "Invalid API key", "openai")
ErrModelRequired == NewError(ErrCodeInvalidRequest, "model is required", "")
ErrNoProviderForModel ==
    NewError(ErrCodeModelNotFound, "no provider found for model m0", "")
ErrCannotFit ==
    NewError(ErrCodeTokenLimitExceeded, "cannot fit conversation within token limit", "")

FnErrors ==
    { ErrAuthentication, ErrNotFoundQuota, ErrRateLimitedRetryIn,
      ErrRateRetryInZero, ErrServer, ErrUnknown, ErrQuota, ErrQuotaCapital,
      ErrInvalidAPIKey, ErrModelRequired, ErrNoProviderForModel, ErrCannotFit }

OutcomeOK == [ok |-> TRUE, err |-> NoError]
OutcomeErr(e) == [ok |-> FALSE, err |-> e]
FnOutcomes == { OutcomeOK } \cup { OutcomeErr(e) : e \in FnErrors }

NonRetryablePatterns ==
    { "invalid_api_key", "authentication", "unauthorized", "permission denied",
      "invalid request", "bad request", "not found" }

RetryablePatterns ==
    { "429", "500", "502", "503", "504", "timeout", "deadline exceeded",
      "connection", "rate", "quota", "server_error", "temporarily unavailable" }

\* IsRetryableError with unknown errors treated as fatal
IsRetryableError_UnknownFatal(err) ==
    IF \E pattern \in NonRetryablePatterns : Contains(ToLower(err), pattern)
    THEN FALSE
    ELSE \E pattern \in RetryablePatterns : Contains(ToLower(err), pattern)

\* IsRetryableError with the retryable list looked at first
IsRetryableError_RetryableFirst(err) ==
    IF \E pattern \in RetryablePatterns : Contains(ToLower(err), pattern)
    THEN TRUE
    ELSE ~ \E pattern \in NonRetryablePatterns : Contains(ToLower(err), pattern)

\* IsRetryableError (err is never nil where WithRetry calls it)
IsRetryableError(err) ==
    IF \E pattern \in NonRetryablePatterns : Contains(ToLower(err), pattern)
    THEN FALSE
    ELSE IF \E pattern \in RetryablePatterns : Contains(ToLower(err), pattern)
         THEN TRUE
         ELSE TRUE

\* IsQuotaExceededError
IsQuotaExceededError(err) == Contains(ToLower(err), "quota")

\* the seconds the regexp [Rr]etry in (\d+\.?\d*)s captures, -1 without a match
RetryInSeconds(errStr) ==
    IF Contains(errStr, "retry in 3s") THEN 3
    ELSE IF Contains(errStr, "retry in 0s") THEN 0
    ELSE -1

\* ParseRateLimitDelay
ParseRateLimitDelay(err) ==
    IF ~Contains(err, "429") /\ ~Contains(err, "rate") /\ ~Contains(err, "quota")
    THEN 0
    ELSE IF RetryInSeconds(err) >= 0 THEN RetryInSeconds(err)
    ELSE RateLimitDefaultDelay

Min(a, b) == IF a <= b THEN a ELSE b

ModelOriginal == "m0"
FallbackLists == { << >>, <<"fA">>, <<"fA", "fB">> }

DefaultRetryConfig ==
    [MaxAttempts |-> DefaultMaxAttempts, BaseDelay |-> DefaultBaseDelay,
     MaxDelay |-> DefaultMaxDelay, FallbackModels |-> << >>]

\* the configurations callers pass; nil becomes DefaultRetryConfig
RetryConfigs ==
    { DefaultRetryConfig }
    \cup [MaxAttempts : 1 .. MaxAttemptsInput, BaseDelay : {2}, MaxDelay : {0, 3},
          FallbackModels : FallbackLists]
    \cup [MaxAttempts : {0}, BaseDelay : {0}, MaxDelay : {3},
          FallbackModels : {<<"fA", "fB">>}]

\* the loop running one time more than MaxAttempts
maxAttempts_OneMore ==
    IF config.MaxAttempts <= 0 THEN DefaultMaxAttempts + 1 ELSE config.MaxAttempts + 1

\* maxAttempts := config.MaxAttempts; if maxAttempts <= 0 { maxAttempts = 5 }
maxAttempts ==
    IF config.MaxAttempts <= 0 THEN DefaultMaxAttempts ELSE config.MaxAttempts

\* maxDelay := config.MaxDelay; if maxDelay <= 0 { maxDelay = 30 * time.Second }
maxDelay == IF config.MaxDelay <= 0 THEN DefaultMaxDelay ELSE config.MaxDelay

\* what WithRetry returns; attempts is the count an error message states
Result(kind, e, wrapped, m, n) ==
    [kind |-> kind, err |-> e, wrapped |-> wrapped, model |-> m, attempts |-> n]

NoResult == Result("none", NoError, FALSE, "", 0)
ResultResp(m) == Result("resp", NoError, FALSE, m, 0)
\* return nil, err
ResultErr(e) == Result("err", e, FALSE, "", 0)
\* the last error handed back as it came
ResultExhausted_Unwrapped(e) == Result("err", e, FALSE, "", 0)
\* fmt.Errorf("operation failed after %d attempts: %w", maxAttempts, lastErr)
ResultExhausted(e) == Result("err", e, TRUE, "", maxAttempts)
\* fmt.Errorf("retry cancelled: %w", ctx.Err())
ResultCancelled == Result("cancelled", NoError, TRUE, "", 0)

RetryInitWith(c) ==
    /\ config = c
    /\ rPc = "call"
    /\ attempt = 1
    /\ delay = c.BaseDelay
    /\ fallbackIndex = 0
    /\ reqModel = ModelOriginal
    /\ lastErr = NoError
    /\ rResult = NoResult
    /\ timerMayWin = FALSE
    /\ cancelledInWait = FALSE
    /\ calls = << >>
    /\ waits = << >>

RetryInit == (\E c \in RetryConfigs : RetryInitWith(c)) /\ ctxDone \in BOOLEAN

RetryIdle == RetryInitWith(DefaultRetryConfig) /\ ctxDone = FALSE

\* WithRetry leaves: the result is set and nothing else moves
RetryReturn(r) ==
    /\ rResult' = r
    /\ rPc' = "done"
    /\ UNCHANGED <<attempt, delay, timerMayWin, waits>>

\* the quota branch with the index left where it was
QuotaFallback_NoIncrement(err) ==
    IF IsQuotaExceededError(err)
    THEN IF Len(config.FallbackModels) > 0 /\ fallbackIndex < Len(config.FallbackModels)
         THEN [return |-> FALSE, model |-> config.FallbackModels[fallbackIndex + 1],
               index |-> fallbackIndex]
         ELSE [return |-> TRUE, model |-> reqModel, index |-> fallbackIndex]
    ELSE [return |-> FALSE, model |-> reqModel, index |-> fallbackIndex]

\* the quota branch with the index advanced and the request's model kept
QuotaFallback_KeepsModel(err) ==
    IF IsQuotaExceededError(err)
    THEN IF Len(config.FallbackModels) > 0 /\ fallbackIndex < Len(config.FallbackModels)
         THEN [return |-> FALSE, model |-> reqModel, index |-> fallbackIndex + 1]
         ELSE [return |-> TRUE, model |-> reqModel, index |-> fallbackIndex]
    ELSE [return |-> FALSE, model |-> reqModel, index |-> fallbackIndex]

\* lines 71-89: the quota branch; FallbackModels[fallbackIndex] is 0-based in Go
QuotaFallback(err) ==
    IF IsQuotaExceededError(err)
    THEN IF Len(config.FallbackModels) > 0 /\ fallbackIndex < Len(config.FallbackModels)
         THEN [return |-> FALSE, model |-> config.FallbackModels[fallbackIndex + 1],
               index |-> fallbackIndex + 1]
         ELSE [return |-> TRUE, model |-> reqModel, index |-> fallbackIndex]
    ELSE [return |-> FALSE, model |-> reqModel, index |-> fallbackIndex]

\* lines 91-115: the delay chosen, and the select entered
EnterWait(err) ==
    LET suggestedDelay == ParseRateLimitDelay(err)
        d == IF suggestedDelay > 0 THEN suggestedDelay + SuggestedDelayBuffer ELSE delay
    IN /\ delay' = d
       /\ waits' = Append(waits, d)
       /\ timerMayWin' = (~ctxDone \/ d <= 0)
       /\ rPc' = "wait"
       /\ UNCHANGED <<attempt, rResult>>

\* a successful call that WithRetry does not return from
AfterSuccess_KeepsGoing ==
    IF attempt < maxAttempts
    THEN /\ attempt' = attempt + 1
         /\ UNCHANGED <<rPc, rResult, delay, timerMayWin, waits>>
    ELSE RetryReturn(ResultResp(reqModel))

\* lines 56-58: if err == nil { return resp, nil }
AfterSuccess == RetryReturn(ResultResp(reqModel))

\* lines 60-129: one failed invocation, up to the return or the select
AfterFailure(err) ==
    /\ lastErr' = err
    /\ IF ~IsRetryableError(err)
       THEN /\ RetryReturn(ResultErr(err))
            /\ UNCHANGED <<reqModel, fallbackIndex>>
       ELSE LET q == QuotaFallback(err)
            IN IF q.return
               THEN /\ RetryReturn(ResultErr(err))
                    /\ UNCHANGED <<reqModel, fallbackIndex>>
               ELSE /\ reqModel' = q.model
                    /\ fallbackIndex' = q.index
                    /\ IF attempt < maxAttempts
                       THEN EnterWait(err)
                       ELSE \* attempt++ ends the loop
                            /\ rResult' = ResultExhausted(err)
                            /\ rPc' = "done"
                            /\ attempt' = attempt + 1
                            /\ UNCHANGED <<delay, timerMayWin, waits>>

\* resp, err := fn(ctx, req), and what the loop body does with it
RetryAttempt(outcome) ==
    /\ rPc = "call"
    /\ attempt <= maxAttempts
    /\ calls' = Append(calls, [model |-> reqModel, ok |-> outcome.ok,
                               err |-> outcome.err])
    /\ IF outcome.ok
       THEN AfterSuccess /\ UNCHANGED <<lastErr, reqModel, fallbackIndex>>
       ELSE AfterFailure(outcome.err)
    /\ UNCHANGED <<config, ctxDone, cancelledInWait>>

\* case <-time.After(delay), then the backoff update and attempt++
RetryWaitElapsed ==
    /\ rPc = "wait"
    /\ timerMayWin
    /\ delay' = IF ParseRateLimitDelay(lastErr) = 0
                THEN Min(delay * 2, maxDelay)
                ELSE delay
    /\ attempt' = attempt + 1
    /\ rPc' = "call"
    /\ timerMayWin' = FALSE
    /\ UNCHANGED <<config, fallbackIndex, reqModel, lastErr, rResult, ctxDone,
                   cancelledInWait, calls, waits>>

\* the ctx.Done() case going on to the next attempt
RetryWaitCancelled_Retries ==
    /\ rPc = "wait"
    /\ ctxDone
    /\ attempt' = attempt + 1
    /\ rPc' = "call"
    /\ timerMayWin' = FALSE
    /\ UNCHANGED <<config, delay, fallbackIndex, reqModel, lastErr, rResult,
                   ctxDone, cancelledInWait, calls, waits>>

\* case <-ctx.Done(): return nil, fmt.Errorf("retry cancelled: %w", ctx.Err())
RetryWaitCancelled ==
    /\ rPc = "wait"
    /\ ctxDone
    /\ rResult' = ResultCancelled
    /\ rPc' = "done"
    /\ timerMayWin' = FALSE
    /\ UNCHANGED <<config, attempt, delay, fallbackIndex, reqModel, lastErr,
                   ctxDone, cancelledInWait, calls, waits>>

\* the caller cancels its context; a select that is blocked when ctx.Done()
\* is closed is woken by it and takes that case, the timer comes too late
CancelContext ==
    /\ ~ctxDone
    /\ rPc # "done"
    /\ ctxDone' = TRUE
    /\ cancelledInWait' = (rPc = "wait")
    /\ timerMayWin' = IF rPc = "wait" THEN FALSE ELSE timerMayWin
    /\ UNCHANGED <<config, rPc, attempt, delay, fallbackIndex, reqModel, lastErr,
                   rResult, calls, waits>>

(***************************************************************************)
(* The client Conversation (src/conversation.go). A text is the sequence   *)
(* of its characters; a message carries the identity it was created with.  *)
(***************************************************************************)
Chars(n) == [i \in 1 .. n |-> "x"]

\* texts of 3, 4 and 8 characters: 0, 1 and 2 estimated tokens
ConvTexts == { Chars(3), Chars(4), Chars(8) }

ConvRoles == { RoleSystem, RoleUser }

ConvMaxTokensInputs == { 0, 1, 2 }

\* types.NewTextMessage(role, text)
NewTextMessage(id, role, text) == [ID |-> id, Role |-> role, Text |-> text]

\* Provider.EstimateTokens: totalTokens += len(text) / 4 over the messages
RECURSIVE EstimateTokens(_)
EstimateTokens(msgs) ==
    IF msgs = << >> THEN 0
    ELSE (Len(Head(msgs).Text) \div CharsPerToken) + EstimateTokens(Tail(msgs))

ErrNoClientModel == "no provider found for model"
ErrNoRemovable == "no removable messages found"
ErrTokenLimitExceeded == "TOKEN_LIMIT_EXCEEDED"

NoTruncate ==
    [called |-> FALSE, pre |-> << >>, preserveSystem |-> FALSE, err |-> ErrNil,
     post |-> << >>, evicted |-> 0]

\* Conversation.AddMessage on the values msgs and est; the estimate is added
\* only when client.EstimateTokens resolved the model
AddMessageTo(msgs, est, message, modelKnown) ==
    [msgs |-> Append(msgs, message),
     est |-> IF modelKnown THEN est + EstimateTokens(<<message>>) ELSE est]

\* Client.NewConversation(config)
ConvInitWith(systemPrompt, maxTokens, modelKnown) ==
    LET empty == [msgs |-> << >>, est |-> 0]
        c == IF systemPrompt # << >>
             THEN AddMessageTo(<< >>, 0, NewTextMessage(1, RoleSystem, systemPrompt),
                               modelKnown)
             ELSE empty
    IN /\ cMessages = c.msgs
       /\ estimatedTokens = c.est
       /\ cMaxTokens = IF maxTokens <= 0 THEN DefaultConvMaxTokens ELSE maxTokens
       /\ nextID = Len(c.msgs) + 1
       /\ truncLast = NoTruncate

ConvInit ==
    \E sp \in ConvTexts \cup { << >> }, mt \in ConvMaxTokensInputs, known \in BOOLEAN :
        ConvInitWith(sp, mt, known)

ConvIdle == ConvInitWith(<< >>, 0, TRUE)

\* Conversation.AddMessage, under c.mu
AddMessage(role, text, modelKnown) ==
    /\ nextID <= MaxConvMessages
    /\ LET c == AddMessageTo(cMessages, estimatedTokens,
                             NewTextMessage(nextID, role, text), modelKnown)
       IN /\ cMessages' = c.msgs
          /\ estimatedTokens' = c.est
    /\ nextID' = nextID + 1
    /\ UNCHANGED <<cMaxTokens, truncLast>>

\* the positions removeOldestNonSystemMessage may remove
Removable(msgs, preserveSystem) ==
    { i \in 1 .. Len(msgs) : ~preserveSystem \/ msgs[i].Role # RoleSystem }

SetMin(S) == CHOOSE x \in S : \A y \in S : x <= y

RemoveAt(msgs, i) == SubSeq(msgs, 1, i - 1) \o SubSeq(msgs, i + 1, Len(msgs))

\* removeOldestNonSystemMessage dropping the tail from the removable message on
removeOldestNonSystemMessage_DropsTail(msgs, preserveSystem) ==
    IF Removable(msgs, preserveSystem) = { }
    THEN [msgs |-> msgs, err |-> ErrNoRemovable]
    ELSE [msgs |-> SubSeq(msgs, 1, SetMin(Removable(msgs, preserveSystem)) - 1),
          err |-> ErrNil]

\* Conversation.removeOldestNonSystemMessage
removeOldestNonSystemMessage(msgs, preserveSystem) ==
    IF Removable(msgs, preserveSystem) = { }
    THEN [msgs |-> msgs, err |-> ErrNoRemovable]
    ELSE [msgs |-> RemoveAt(msgs, SetMin(Removable(msgs, preserveSystem))),
          err |-> ErrNil]

\* the loop of TruncateToFit with the exhaustion test made only when nothing
\* removable is left
RECURSIVE TruncateLoop_RecheckFirst(_, _, _)
TruncateLoop_RecheckFirst(msgs, est, preserveSystem) ==
    IF EstimateTokens(msgs) <= cMaxTokens
    THEN [msgs |-> msgs, est |-> EstimateTokens(msgs), err |-> ErrNil, evicted |-> 0]
    ELSE LET r == removeOldestNonSystemMessage(msgs, preserveSystem)
         IN IF r.err # ErrNil
            THEN [msgs |-> msgs, est |-> est, err |-> ErrTokenLimitExceeded,
                  evicted |-> 0]
            ELSE LET rest == TruncateLoop_RecheckFirst(r.msgs, est, preserveSystem)
                 IN [rest EXCEPT !.evicted = @ + 1]

\* the loop of TruncateToFit, lines 161-181; evicted counts the calls of
\* removeOldestNonSystemMessage that returned nil
RECURSIVE TruncateLoop(_, _, _)
TruncateLoop(msgs, est, preserveSystem) ==
    IF EstimateTokens(msgs) <= cMaxTokens
    THEN [msgs |-> msgs, est |-> EstimateTokens(msgs), err |-> ErrNil, evicted |-> 0]
    ELSE LET r == removeOldestNonSystemMessage(msgs, preserveSystem)
         IN IF r.err # ErrNil
            THEN [msgs |-> msgs, est |-> est, err |-> r.err, evicted |-> 0]
            ELSE IF Len(r.msgs) = 0 \/ (preserveSystem /\ Len(r.msgs) = 1)
                 THEN [msgs |-> r.msgs, est |-> est, err |-> ErrTokenLimitExceeded,
                       evicted |-> 1]
                 ELSE LET rest == TruncateLoop(r.msgs, est, preserveSystem)
                      IN [rest EXCEPT !.evicted = @ + 1]

\* Conversation.TruncateToFit(ctx, model, preserveSystem), under c.mu; the
\* first client.EstimateTokens fails when no provider serves the model
TruncateToFit(preserveSystem, modelKnown) ==
    LET r == IF modelKnown
             THEN TruncateLoop(cMessages, estimatedTokens, preserveSystem)
             ELSE [msgs |-> cMessages, est |-> estimatedTokens,
                   err |-> ErrNoClientModel, evicted |-> 0]
    IN /\ cMessages' = r.msgs
       /\ estimatedTokens' = r.est
       /\ truncLast' = [called |-> TRUE, pre |-> cMessages,
                        preserveSystem |-> preserveSystem, err |-> r.err,
                        post |-> r.msgs, evicted |-> r.evicted]
       /\ UNCHANGED <<cMaxTokens, nextID>>

\* Conversation.Clear
Clear ==
    /\ cMessages' = << >>
    /\ estimatedTokens' = 0
    /\ UNCHANGED <<cMaxTokens, nextID, truncLast>>

TruncNext ==
    \/ \E role \in ConvRoles, text \in ConvTexts, known \in BOOLEAN :
          AddMessage(role, text, known) /\ UNCHANGED otherThanConv
    \/ \E preserveSystem \in BOOLEAN, known \in BOOLEAN :
          TruncateToFit(preserveSystem, known) /\ UNCHANGED otherThanConv
    \/ Clear /\ UNCHANGED otherThanConv


(***************************************************************************)
(* The provider adapters: Complete and Stream of the OpenAI, Google and    *)
(* Replicate providers. The backend is deterministic: it produces one text *)
(* for the request, cut into the chunks of `backend` when it is streamed.  *)
(***************************************************************************)
Adapters == { "openai", "google", "replicate" }

Chunk(choices, text, finish) == [choices |-> choices, text |-> text, finish |-> finish]

\* a delta with text, a delta without (the role-only first chunk), final
\* chunks with and without text, and a chunk without choices (usage only)
ChunkKinds ==
    { Chunk(TRUE, <<"a">>, ""), Chunk(TRUE, << >>, ""), Chunk(TRUE, <<"b">>, "stop"),
      Chunk(TRUE, << >>, "stop"), Chunk(FALSE, << >>, "") }

\* what a backend streams: once a chunk carried the finish reason, only
\* chunks without choices follow
Scripts ==
    { sc \in UNION { [1 .. n -> ChunkKinds] : n \in 0 .. MaxChunks } :
        \A i, j \in DOMAIN sc :
            (i < j /\ sc[i].finish # "") => ~sc[j].choices }

PredictionStatuses == { "succeeded", "failed", "canceled" }

\* the text the backend produces: the chunks' texts joined
RECURSIVE FullText(_)
FullText(sc) == IF sc = << >> THEN << >> ELSE Head(sc).text \o FullText(Tail(sc))

\* the finish reason the backend reports for the whole completion
RECURSIVE BackendFinish(_)
BackendFinish(sc) ==
    IF sc = << >> THEN "stop"
    ELSE IF Head(sc).finish # "" THEN Head(sc).finish
    ELSE BackendFinish(Tail(sc))

ErrServerError == "SERVER_ERROR"
ErrCallback == "callback error"
ErrClient == "client error"

StreamResponse(delta, text, finish) == [delta |-> delta, text |-> text, finish |-> finish]

NoComplete == [called |-> FALSE, err |-> ErrNil, text |-> << >>, finish |-> ""]

\* Replicate convertResponse: the finish reason from prediction.Status
ReplicateFinishReason(status) ==
    CASE status = "failed" -> "error"
      [] status = "canceled" -> "cancelled"
      [] OTHER -> "stop"

\* Provider.Complete of each adapter; failed: the backend call returned an error
ProviderComplete(a, sc, status, failed) ==
    IF failed
    THEN [called |-> TRUE, err |-> ErrServerError, text |-> << >>, finish |-> ""]
    ELSE [called |-> TRUE, err |-> ErrNil, text |-> FullText(sc),
          finish |-> IF a = "replicate" THEN ReplicateFinishReason(status)
                     ELSE BackendFinish(sc)]

\* convertStreamResponse losing the text of a chunk that carries a finish reason
convertStreamResponse_DropsFinalText(resp) ==
    IF resp.choices
    THEN StreamResponse(TRUE, IF resp.finish # "" THEN << >> ELSE resp.text, resp.finish)
    ELSE StreamResponse(FALSE, << >>, "")

\* OpenAI convertStreamResponse: Delta is nil and the finish reason empty when
\* the chunk has no choices
convertStreamResponse(resp) ==
    IF resp.choices
    THEN StreamResponse(TRUE, resp.text, resp.finish)
    ELSE StreamResponse(FALSE, << >>, "")

\* Google Stream: response.Text() and Candidates[0].FinishReason of a chunk
googleStreamResponse(resp) == StreamResponse(TRUE, resp.text, resp.finish)

\* Replicate Stream: the whole completion as one StreamResponse
replicateStreamResponse(resp) == StreamResponse(TRUE, resp.text, resp.finish)

\* the delta text of a delivered chunk
DeltaText(r) == IF r.delta THEN r.text ELSE << >>

StreamInitWith(a, sc, status) ==
    /\ adapter = a
    /\ backend = sc
    /\ predStatus = status
    /\ sPc = "open"
    /\ sPos = 1
    /\ delivered = << >>
    /\ sResult = ErrNone
    /\ cbFailedAt = 0
    /\ completeRet = NoComplete

StreamInit ==
    \E a \in Adapters, sc \in Scripts, status \in PredictionStatuses :
        /\ (a # "replicate") => status = "succeeded"
        /\ StreamInitWith(a, sc, status)

StreamIdle == StreamInitWith("openai", << >>, "succeeded")

SendInitWith ==
    /\ sendPc = "idle"
    /\ sendUserID = 0
    /\ sendErr = ErrNone
    /\ fullResponse = << >>
    /\ nSends = 0

\* SendStream's wrappedCallback on one StreamResponse: the conversation after
\* it; callbackFails: the caller's callback returned an error
WrappedCallback(resp, callbackFails, modelKnown) ==
    LET full == IF resp.delta /\ resp.text # << >>
                THEN fullResponse \o resp.text ELSE fullResponse
    IN /\ fullResponse' = full
       /\ IF ~callbackFails /\ resp.finish # "" /\ full # << >>
          THEN LET c == AddMessageTo(cMessages, estimatedTokens,
                                     NewTextMessage(nextID, RoleAssistant, full),
                                     modelKnown)
               IN /\ cMessages' = c.msgs
                  /\ estimatedTokens' = c.est
                  /\ nextID' = nextID + 1
          ELSE UNCHANGED <<cMessages, estimatedTokens, nextID>>

\* the callback is invoked with resp: the caller's own callback, or
\* SendStream's wrappedCallback around it
Deliver(resp, callbackFails, modelKnown) ==
    /\ delivered' = Append(delivered, resp)
    /\ cbFailedAt' = IF callbackFails /\ cbFailedAt = 0
                     THEN Len(delivered) + 1 ELSE cbFailedAt
    /\ IF sendPc = "stream"
       THEN WrappedCallback(resp, callbackFails, modelKnown)
       ELSE UNCHANGED <<cMessages, estimatedTokens, nextID, fullResponse>>

NoDelivery ==
    UNCHANGED <<delivered, cbFailedAt, cMessages, estimatedTokens, nextID, fullResponse>>

\* Stream returns r; SendStream returns what client.Stream returned
StreamReturn(r) ==
    /\ sResult' = r
    /\ sPc' = "done"
    /\ IF sendPc = "stream"
       THEN sendPc' = "returned" /\ sendErr' = r
       ELSE UNCHANGED <<sendPc, sendErr>>

StreamContinue(pc, pos) ==
    /\ sPc' = pc
    /\ sPos' = pos
    /\ UNCHANGED <<sResult, sendPc, sendErr>>

streamFrame == <<adapter, backend, predStatus, completeRet, cMaxTokens, truncLast,
                 sendUserID, nSends>>

\* OpenAI Stream, lines 982-997: CreateChatCompletionStream
OpenAIStreamOpen(failed) ==
    /\ adapter = "openai"
    /\ sPc = "open"
    /\ IF failed THEN StreamReturn(ErrServerError) /\ UNCHANGED sPos
       ELSE StreamContinue("recv", 1)
    /\ NoDelivery
    /\ UNCHANGED streamFrame

\* the loop dropping the callback's error and going on to the next chunk
OpenAIStreamRecv_IgnoresCallbackError(recvFails, callbackFails, modelKnown) ==
    /\ adapter = "openai"
    /\ sPc = "recv"
    /\ IF recvFails
       THEN StreamReturn(ErrServerError) /\ UNCHANGED sPos /\ NoDelivery
       ELSE IF sPos > Len(backend)
       THEN StreamReturn(ErrNil) /\ UNCHANGED sPos /\ NoDelivery
       ELSE /\ Deliver(convertStreamResponse(backend[sPos]), callbackFails, modelKnown)
            /\ StreamContinue("recv", sPos + 1)
    /\ UNCHANGED streamFrame

\* OpenAI Stream, lines 999-1014: one turn of the loop around stream.Recv()
OpenAIStreamRecv(recvFails, callbackFails, modelKnown) ==
    /\ adapter = "openai"
    /\ sPc = "recv"
    /\ IF recvFails
       THEN StreamReturn(ErrServerError) /\ UNCHANGED sPos /\ NoDelivery
       ELSE IF sPos > Len(backend)
       THEN \* io.EOF
            StreamReturn(ErrNil) /\ UNCHANGED sPos /\ NoDelivery
       ELSE /\ Deliver(convertStreamResponse(backend[sPos]), callbackFails, modelKnown)
            /\ IF callbackFails
               THEN StreamReturn(ErrCallback) /\ UNCHANGED sPos
               ELSE StreamContinue("recv", sPos + 1)
    /\ UNCHANGED streamFrame

\* Google Stream, lines 517-567: one turn of the loop over the iterator
GoogleStreamNext(nextFails, callbackFails, modelKnown) ==
    /\ adapter = "google"
    /\ sPc \in { "open", "recv" }
    /\ IF nextFails
       THEN StreamReturn(ErrServerError) /\ UNCHANGED sPos /\ NoDelivery
       ELSE IF sPos > Len(backend)
       THEN StreamReturn(ErrNil) /\ UNCHANGED sPos /\ NoDelivery
       ELSE LET resp == googleStreamResponse(backend[sPos])
            IN /\ Deliver(resp, callbackFails, modelKnown)
               /\ IF callbackFails
                  THEN StreamReturn(ErrCallback) /\ UNCHANGED sPos
                  ELSE IF resp.finish # ""
                  THEN \* this is the last chunk: break
                       StreamReturn(ErrNil) /\ UNCHANGED sPos
                  ELSE StreamContinue("recv", sPos + 1)
    /\ UNCHANGED streamFrame

\* Replicate Stream, lines 152-175: Complete, then the callback once
ReplicateStream(completeFails, callbackFails, modelKnown) ==
    /\ adapter = "replicate"
    /\ sPc = "open"
    /\ LET resp == ProviderComplete("replicate", backend, predStatus, completeFails)
       IN IF resp.err # ErrNil
          THEN StreamReturn(resp.err) /\ NoDelivery
          ELSE /\ Deliver(replicateStreamResponse(resp), callbackFails, modelKnown)
               /\ StreamReturn(IF callbackFails THEN ErrCallback ELSE ErrNil)
    /\ UNCHANGED sPos
    /\ UNCHANGED streamFrame

\* Provider.Complete for the same request
CompleteCall(failed) ==
    /\ ~completeRet.called
    /\ sendPc = "idle"
    /\ completeRet' = ProviderComplete(adapter, backend, predStatus, failed)
    /\ UNCHANGED <<adapter, backend, predStatus, sPc, sPos, delivered, sResult,
                   cbFailedAt>>
    /\ UNCHANGED <<convVars, sendVars>>

StreamSteps ==
    \/ \E failed \in BOOLEAN : OpenAIStreamOpen(failed)
    \/ \E recvFails, callbackFails, known \in BOOLEAN :
          OpenAIStreamRecv(recvFails, callbackFails, known)
    \/ \E nextFails, callbackFails, known \in BOOLEAN :
          GoogleStreamNext(nextFails, callbackFails, known)
    \/ \E completeFails, callbackFails, known \in BOOLEAN :
          ReplicateStream(completeFails, callbackFails, known)

StreamNext ==
    \/ \E failed \in BOOLEAN :
          OpenAIStreamOpen(failed) /\ UNCHANGED otherThanSend
    \/ \E recvFails, callbackFails \in BOOLEAN :
          OpenAIStreamRecv(recvFails, callbackFails, TRUE) /\ UNCHANGED otherThanSend
    \/ \E nextFails, callbackFails \in BOOLEAN :
          GoogleStreamNext(nextFails, callbackFails, TRUE) /\ UNCHANGED otherThanSend
    \/ \E completeFails, callbackFails \in BOOLEAN :
          ReplicateStream(completeFails, callbackFails, TRUE) /\ UNCHANGED otherThanSend
    \/ \E failed \in BOOLEAN : CompleteCall(failed) /\ UNCHANGED otherThanSend

(***************************************************************************)
(* Conversation.Send and Conversation.SendStream (src/conversation.go).    *)
(***************************************************************************)
SendTexts == { Chars(4) }

\* lines 209-218 and 238-248: AddUserMessage, then the request is built
AddUserMessage(text, modelKnown) ==
    LET c == AddMessageTo(cMessages, estimatedTokens,
                          NewTextMessage(nextID, RoleUser, text), modelKnown)
    IN /\ cMessages' = c.msgs
       /\ estimatedTokens' = c.est
       /\ sendUserID' = nextID
       /\ nextID' = nextID + 1

\* Send up to the call of client.Complete
SendStart(text, modelKnown) ==
    /\ sendPc \in { "idle", "returned" }
    /\ nSends < MaxSends
    /\ nSends' = nSends + 1
    /\ AddUserMessage(text, modelKnown)
    /\ sendPc' = "complete"
    /\ sendErr' = ErrNone
    /\ UNCHANGED <<cMaxTokens, truncLast, fullResponse, streamVars>>

\* Send, lines 221-233: client.Complete returned
SendFinish(completeFails, modelKnown) ==
    /\ sendPc = "complete"
    /\ LET resp == ProviderComplete(adapter, backend, predStatus, completeFails)
       IN IF resp.err # ErrNil
          THEN /\ sendErr' = resp.err
               /\ UNCHANGED <<cMessages, estimatedTokens, nextID>>
          ELSE LET c == AddMessageTo(cMessages, estimatedTokens,
                                     NewTextMessage(nextID, RoleAssistant, resp.text),
                                     modelKnown)
               IN /\ cMessages' = c.msgs
                  /\ estimatedTokens' = c.est
                  /\ nextID' = nextID + 1
                  /\ sendErr' = ErrNil
    /\ sendPc' = "returned"
    /\ UNCHANGED <<cMaxTokens, truncLast, sendUserID, fullResponse, nSends, streamVars>>

\* SendStream up to provider.Stream; clientFails: client.Stream returned an
\* error before it reached the provider
SendStreamStart(text, modelKnown, clientFails) ==
    /\ sendPc \in { "idle", "returned" }
    /\ nSends < MaxSends
    /\ nSends' = nSends + 1
    /\ AddUserMessage(text, modelKnown)
    /\ fullResponse' = << >>
    /\ delivered' = << >>
    /\ cbFailedAt' = 0
    /\ sPos' = 1
    /\ IF clientFails
       THEN /\ sendPc' = "returned"
            /\ sendErr' = ErrClient
            /\ UNCHANGED <<sPc, sResult>>
       ELSE /\ sendPc' = "stream"
            /\ sendErr' = ErrNone
            /\ sPc' = "open"
            /\ sResult' = ErrNone
    /\ UNCHANGED <<cMaxTokens, truncLast, adapter, backend, predStatus, completeRet>>

SendNext ==
    \/ \E text \in SendTexts, known \in BOOLEAN :
          SendStart(text, known) /\ UNCHANGED otherThanSend
    \/ \E completeFails, known \in BOOLEAN :
          SendFinish(completeFails, known) /\ UNCHANGED otherThanSend
    \/ \E text \in SendTexts, known, clientFails \in BOOLEAN :
          SendStreamStart(text, known, clientFails) /\ UNCHANGED otherThanSend
    \/ (sendPc = "stream" /\ StreamSteps) /\ UNCHANGED otherThanSend

(***************************************************************************)
(* The Client (src/client.go): RegisterProvider in one goroutine, requests *)
(* dispatched through getProviderForModel in another.                      *)
(***************************************************************************)
ProviderNames == { "p1", "p2" }
ModelIDs == { "m1", "m2", "mX" }

\* a provider: its identity, what GetName returns and the ids GetModels returns
Provider(id, name, models) == [id |-> id, name |-> name, models |-> models]

NoProvider == Provider(0, "", { })

\* the providers callers register; the third has the name of the first
ProviderInputs ==
    { Provider(1, "p1", { "m1" }), Provider(2, "p2", { "m1", "m2" }),
      Provider(3, "p1", { "m2" }) }

\* types.Model: the fields dispatch looks at
Model(provider, id) == [Provider |-> provider, ID |-> id]

ErrCodeInvalidConfig == "INVALID_CONFIG"
ErrAlreadyRegistered == NewError(ErrCodeInvalidConfig, "provider already registered", "")
ErrProviderNotFound == NewError(ErrCodeInvalidConfig, "provider not found", "")
ErrInitialize(name) == NewError(ErrCodeInvalidConfig, "initialize failed", name)
\* the runtime's throw on a map read that overlaps a map write
FatalConcurrentMap == { "fatal error: concurrent map iteration and map write" }

NoRegistration ==
    [called |-> FALSE, returned |-> FALSE, provider |-> NoProvider,
     err |-> NoError, initialized |-> FALSE, askedModels |-> FALSE,
     modelsErr |-> FALSE,
     providersBefore |-> [n \in ProviderNames |-> NoProvider],
     indexBefore |-> { }]

NoDispatch ==
    [called |-> FALSE, model |-> "", kind |-> "none", provider |-> NoProvider,
     err |-> NoError, index |-> { }, raced |-> FALSE,
     providers |-> [n \in ProviderNames |-> NoProvider], prev |-> << >>]

ClientInitWith(defaultProvider, configured) ==
    /\ providers = [n \in ProviderNames |-> NoProvider]
    /\ modelIndex = { }
    /\ clientConfig = [DefaultProvider |-> defaultProvider, ProviderConfigs |-> configured]
    /\ mu = "free"
    /\ regPc = "idle"
    /\ regCur = NoProvider
    /\ regTodo = { }
    /\ regLast = NoRegistration
    /\ nRegs = 0
    /\ dPc = "idle"
    /\ dModel = ""
    /\ dName = ""
    /\ dLast = NoDispatch
    /\ nDispatches = 0
    /\ reads = { }

\* NewClient
ClientInit ==
    \E defaultProvider \in { "" } \cup ProviderNames,
       configured \in { { }, { "p1" }, ProviderNames } :
        ClientInitWith(defaultProvider, configured)

ClientIdle == ClientInitWith("", { })

regFrame == <<clientConfig, dPc, dModel, dName, dLast, nDispatches, reads>>

\* the duplicate test left out
RegisterProvider_NoDuplicateTest(provider, initFails, modelsFail) ==
    /\ regPc = "idle"
    /\ dPc # "crashed"
    /\ mu = "free"
    /\ nRegs < MaxRegistrations
    /\ nRegs' = nRegs + 1
    /\ providers' = [providers EXCEPT ![provider.name] = provider]
    /\ regLast' = [called |-> TRUE, returned |-> TRUE, provider |-> provider,
                   err |-> NoError, initialized |-> FALSE, askedModels |-> FALSE,
                   modelsErr |-> FALSE,
                   providersBefore |-> providers, indexBefore |-> modelIndex]
    /\ UNCHANGED <<modelIndex, mu, regPc, regCur, regTodo>>
    /\ UNCHANGED regFrame

\* RegisterProvider giving up when GetModels fails: the provider is taken out
\* of the map again and the error is returned
RegisterProvider_AbortsOnModelsError(provider, initFails, modelsFail) ==
    /\ regPc = "idle"
    /\ dPc # "crashed"
    /\ mu = "free"
    /\ nRegs < MaxRegistrations
    /\ nRegs' = nRegs + 1
    /\ LET before == [called |-> TRUE, returned |-> FALSE, provider |-> provider,
                      err |-> NoError, initialized |-> FALSE, askedModels |-> FALSE,
                      modelsErr |-> FALSE,
                      providersBefore |-> providers, indexBefore |-> modelIndex]
           hasConfig == provider.name \in clientConfig.ProviderConfigs
       IN IF providers[provider.name] # NoProvider
          THEN \* already registered: the deferred Unlock runs
               /\ regLast' = [before EXCEPT !.err = ErrAlreadyRegistered,
                                            !.returned = TRUE]
               /\ UNCHANGED <<providers, modelIndex, mu, regPc, regCur, regTodo>>
          ELSE IF hasConfig /\ initFails
          THEN /\ regLast' = [before EXCEPT !.err = ErrInitialize(provider.name),
                                            !.initialized = TRUE,
                                            !.returned = TRUE]
               /\ UNCHANGED <<providers, modelIndex, mu, regPc, regCur, regTodo>>
          ELSE IF modelsFail
          THEN /\ regLast' = [before EXCEPT !.err = ErrInitialize(provider.name),
                                            !.initialized = hasConfig,
                                            !.askedModels = TRUE,
                                            !.modelsErr = TRUE,
                                            !.returned = TRUE]
               /\ UNCHANGED <<providers, modelIndex, mu, regPc, regCur, regTodo>>
          ELSE /\ providers' = [providers EXCEPT ![provider.name] = provider]
               /\ regLast' = [before EXCEPT !.initialized = hasConfig,
                                            !.askedModels = TRUE,
                                            !.modelsErr = modelsFail]
               /\ regCur' = provider
               /\ regTodo' = IF modelsFail THEN { } ELSE provider.models
               /\ regPc' = "models"
               /\ mu' = "writer"
               /\ UNCHANGED modelIndex
    /\ UNCHANGED regFrame

\* RegisterProvider, lines 91-110: Lock, the duplicate test, Initialize,
\* the write to c.providers and GetModels
RegisterProvider(provider, initFails, modelsFail) ==
    /\ regPc = "idle"
    /\ dPc # "crashed"
    /\ mu = "free"
    /\ nRegs < MaxRegistrations
    /\ nRegs' = nRegs + 1
    /\ LET before == [called |-> TRUE, returned |-> FALSE, provider |-> provider,
                      err |-> NoError, initialized |-> FALSE, askedModels |-> FALSE,
                      modelsErr |-> FALSE,
                      providersBefore |-> providers, indexBefore |-> modelIndex]
           hasConfig == provider.name \in clientConfig.ProviderConfigs
       IN IF providers[provider.name] # NoProvider
          THEN \* already registered: the deferred Unlock runs
               /\ regLast' = [before EXCEPT !.err = ErrAlreadyRegistered,
                                            !.returned = TRUE]
               /\ UNCHANGED <<providers, modelIndex, mu, regPc, regCur, regTodo>>
          ELSE IF hasConfig /\ initFails
          THEN /\ regLast' = [before EXCEPT !.err = ErrInitialize(provider.name),
                                            !.initialized = TRUE,
                                            !.returned = TRUE]
               /\ UNCHANGED <<providers, modelIndex, mu, regPc, regCur, regTodo>>
          ELSE /\ providers' = [providers EXCEPT ![provider.name] = provider]
               /\ regLast' = [before EXCEPT !.initialized = hasConfig,
                                            !.askedModels = TRUE,
                                            !.modelsErr = modelsFail]
               /\ regCur' = provider
               /\ regTodo' = IF modelsFail THEN { } ELSE provider.models
               /\ regPc' = "models"
               /\ mu' = "writer"
               /\ UNCHANGED modelIndex
    /\ UNCHANGED regFrame

\* lines 116-118: c.modelRegistry.Register(model), one model of the loop
RegisterModel ==
    /\ regPc = "models"
    /\ dPc # "crashed"
    /\ \E id \in regTodo :
          /\ modelIndex' = modelIndex \cup { Model(regCur.name, id) }
          /\ regTodo' = regTodo \ { id }
    /\ UNCHANGED <<providers, mu, regPc, regCur, regLast, nRegs>>
    /\ UNCHANGED regFrame

\* line 122 and the deferred Unlock
RegisterReturn ==
    /\ regPc = "models"
    /\ dPc # "crashed"
    /\ regTodo = { }
    /\ regPc' = "idle"
    /\ mu' = "free"
    /\ regLast' = [regLast EXCEPT !.returned = TRUE]
    /\ UNCHANGED <<providers, modelIndex, regCur, regTodo, nRegs>>
    /\ UNCHANGED regFrame

dispatchFrame == <<providers, modelIndex, clientConfig, mu, regPc, regCur, regTodo,
                   regLast, nRegs>>

\* the lookup that finds no model in the index
ProvidersOfModel_IgnoresIndex(index, model) == { }

\* lines 279-283: the providers of the index entries with this model id
ProvidersOfModel(index, model) == { rm.Provider : rm \in { x \in index : x.ID = model } }

\* a read of a shared structure by dispatch, and what held at that moment
ReadOf(what, rlocked) ==
    [what |-> what, rlocked |-> rlocked, writerActive |-> (mu = "writer")]

\* what is kept of the previous lookup when the same model id is looked up
\* again: what it saw and what it returned
DispatchSummary(d) ==
    [model |-> d.model, index |-> d.index, providers |-> d.providers,
     kind |-> d.kind, provider |-> d.provider]

\* getProviderForModel, lines 279-291, up to the call of GetProvider:
\* c.modelRegistry.List() is read without c.mu; the map is iterated in any
\* order, and a read that overlaps RegisterProvider's writes sees the index
\* as it is or is stopped by the runtime
DispatchLookup(model, crash) ==
    /\ dPc = "idle"
    /\ nDispatches < MaxDispatches
    /\ nDispatches' = nDispatches + 1
    /\ reads' = reads \cup { ReadOf("models", FALSE) }
    /\ dModel' = model
    /\ LET owners == ProvidersOfModel(modelIndex, model)
           seen == [NoDispatch EXCEPT !.called = TRUE, !.model = model,
                                      !.index = modelIndex,
                                      !.raced = (mu = "writer"),
                                      !.prev = IF dLast.called /\ dLast.model = model
                                               THEN << DispatchSummary(dLast) >>
                                               ELSE << >>]
       IN IF crash /\ mu = "writer"
          THEN /\ dPc' = "crashed"
               /\ dName' = ""
               /\ dLast' = [seen EXCEPT !.kind = "fatal", !.err = FatalConcurrentMap]
          ELSE IF owners # { }
          THEN /\ \E name \in owners : dName' = name
               /\ dPc' = "getProvider"
               /\ dLast' = seen
          ELSE IF clientConfig.DefaultProvider # ""
          THEN /\ dName' = clientConfig.DefaultProvider
               /\ dPc' = "getProvider"
               /\ dLast' = seen
          ELSE /\ dName' = ""
               /\ dPc' = "idle"
               /\ dLast' = [seen EXCEPT !.kind = "err",
                               !.err = NewError(ErrCodeModelNotFound,
                                                "no provider found for model", "")]
    /\ UNCHANGED dispatchFrame

\* GetProvider, lines 126-137, under c.mu.RLock
GetProvider ==
    /\ dPc = "getProvider"
    /\ mu = "free"
    /\ reads' = reads \cup { ReadOf("providers", TRUE) }
    /\ dLast' = IF providers[dName] = NoProvider
                THEN [dLast EXCEPT !.kind = "err", !.err = ErrProviderNotFound,
                                   !.providers = providers]
                ELSE [dLast EXCEPT !.kind = "provider", !.provider = providers[dName],
                                   !.providers = providers]
    /\ dPc' = "idle"
    /\ UNCHANGED <<dModel, dName, nDispatches>>
    /\ UNCHANGED dispatchFrame

ClientNext ==
    \/ \E provider \in ProviderInputs, initFails, modelsFail \in BOOLEAN :
          RegisterProvider(provider, initFails, modelsFail) /\ UNCHANGED otherThanClient
    \/ RegisterModel /\ UNCHANGED otherThanClient
    \/ RegisterReturn /\ UNCHANGED otherThanClient
    \/ \E model \in ModelIDs, crash \in BOOLEAN :
          DispatchLookup(model, crash) /\ UNCHANGED otherThanClient
    \/ GetProvider /\ UNCHANGED otherThanClient

(***************************************************************************)
(* Client.Complete and Client.Stream (src/client.go): applyDefaults, the   *)
(* provider lookup, the middleware loops and the provider call.            *)
(***************************************************************************)
\* a CompletionRequest: the fields applyDefaults and Stream touch, and the
\* middleware whose ProcessRequest have worked on it, in order
Request(model, maxTokens, temperature) ==
    [Model |-> model, MaxTokens |-> maxTokens, Temperature |-> temperature,
     Stream |-> FALSE, processedBy |-> << >>]

\* temperatures are in tenths
Requests ==
    { Request(m, t, temp) : m \in { "", "m1", "mX" }, t \in { 0, 5 }, temp \in { 0, 2 } }

NoRequest == Request("", 0, 0)

\* a CompletionResponse: the middleware whose ProcessResponse have worked on it
NoResponse == [processedBy |-> << >>]

\* WrapError(err, code, provider).Error(): "[provider] code: " and err's text
WrapError(err, code, provider) ==
    err \cup { code } \cup (IF provider # "" THEN { provider } ELSE { })

ErrMiddleware == { "middleware failed" }

ErrProviderFailed == NewError(ErrServerError, "provider failed", "")

\* c.defaultConfig with n middleware registered, named 1 .. n
ClientDefaults(model, maxTokens, temperature, n) ==
    [DefaultModel |-> model, DefaultMaxTokens |-> maxTokens,
     DefaultTemperature |-> temperature, Middleware |-> [i \in 1 .. n |-> i]]

NoReturn == [kind |-> "none", err |-> NoError, cause |-> "", resp |-> NoResponse]

ReturnErr(e, cause) == [kind |-> "err", err |-> e, cause |-> cause, resp |-> NoResponse]

ReturnResp(resp) == [kind |-> "resp", err |-> NoError, cause |-> "", resp |-> resp]

ReturnNil == [kind |-> "nil", err |-> NoError, cause |-> "", resp |-> NoResponse]

CallInitWith(c) ==
    /\ kConfig = c
    /\ kPc = "idle"
    /\ kOp = ""
    /\ kReq = NoRequest
    /\ kCur = NoRequest
    /\ kProv = ""
    /\ kIdx = 0
    /\ kResp = NoResponse
    /\ kLog = << >>
    /\ kRet = NoReturn
    /\ nCalls = 0

\* NewClient(config): the default model may be missing, the default
\* max-tokens may be zero
CallInit ==
    \E model \in { "", "m2" }, maxTokens \in { 0, 7 }, n \in 0 .. MaxMiddleware :
        CallInitWith(ClientDefaults(model, maxTokens, 7, n))

CallIdle == CallInitWith(ClientDefaults("", 0, 0, 0))

\* a Client after RegisterProvider(p1) and RegisterProvider(p2), with or
\* without a default provider
RegisteredClient ==
    /\ providers = [n \in ProviderNames |->
                      IF n = "p1" THEN Provider(1, "p1", { "m1" })
                      ELSE Provider(2, "p2", { "m1", "m2" })]
    /\ modelIndex = { Model(x[1], x[2]) :
                        x \in { y \in ProviderNames \X ModelIDs :
                                  y[2] \in providers[y[1]].models } }
    /\ \E d \in { "", "p2" } :
          clientConfig = [DefaultProvider |-> d, ProviderConfigs |-> { }]
    /\ mu = "free"
    /\ regPc = "idle"
    /\ regCur = NoProvider
    /\ regTodo = { }
    /\ regLast = NoRegistration
    /\ nRegs = 2
    /\ dPc = "idle"
    /\ dModel = ""
    /\ dName = ""
    /\ dLast = NoDispatch
    /\ nDispatches = 0
    /\ reads = { }

\* applyDefaults replacing the request's max-tokens whether set or not
applyDefaults_OverwritesMaxTokens(req) ==
    IF req.Model = "" /\ kConfig.DefaultModel = ""
    THEN [err |-> ErrModelRequired, req |-> req]
    ELSE [err |-> NoError,
          req |-> [req EXCEPT
                     !.Model = IF @ = "" THEN kConfig.DefaultModel ELSE @,
                     !.MaxTokens = kConfig.DefaultMaxTokens,
                     !.Temperature = IF @ = 0 THEN kConfig.DefaultTemperature ELSE @]]

\* applyDefaults, lines 257-274: the error, and req as it is left
applyDefaults(req) ==
    IF req.Model = "" /\ kConfig.DefaultModel = ""
    THEN [err |-> ErrModelRequired, req |-> req]
    ELSE [err |-> NoError,
          req |-> [req EXCEPT
                     !.Model = IF @ = "" THEN kConfig.DefaultModel ELSE @,
                     !.MaxTokens = IF @ = 0 THEN kConfig.DefaultMaxTokens ELSE @,
                     !.Temperature = IF @ = 0 THEN kConfig.DefaultTemperature ELSE @]]

\* GetProvider(name), lines 126-137, while no registration runs
GetProviderByName(name) ==
    IF providers[name] = NoProvider
    THEN [err |-> ErrProviderNotFound, name |-> ""]
    ELSE [err |-> NoError, name |-> name]

\* getProviderForModel(model), lines 277-292, while no registration runs:
\* what it may return, the index being visited in any order
getProviderForModel(model) ==
    LET owners == ProvidersOfModel(modelIndex, model)
    IN IF owners # { }
       THEN { GetProviderByName(n) : n \in owners }
       ELSE IF clientConfig.DefaultProvider # ""
       THEN { GetProviderByName(clientConfig.DefaultProvider) }
       ELSE { [err |-> NewError(ErrCodeModelNotFound, "no provider found for model", ""),
               name |-> ""] }

\* the call returns r
CallReturn(r) ==
    /\ kRet' = r
    /\ kPc' = "idle"

Invocation(what, by, input) == [what |-> what, by |-> by, input |-> input]

NumMiddleware == Len(kConfig.Middleware)

\* Complete (lines 160-170) and Stream (lines 199-209) up to the middleware:
\* applyDefaults, then getProviderForModel
Call(op, req) ==
    /\ kPc = "idle"
    /\ nCalls < MaxCalls
    /\ nCalls' = nCalls + 1
    /\ kOp' = op
    /\ kReq' = req
    /\ kLog' = << >>
    /\ kResp' = NoResponse
    /\ kIdx' = 1
    /\ LET d == applyDefaults(req)
       IN /\ kCur' = d.req
          /\ IF d.err # NoError
             THEN CallReturn(ReturnErr(d.err, "defaults")) /\ kProv' = ""
             ELSE \E r \in getProviderForModel(d.req.Model) :
                     /\ kProv' = r.name
                     /\ IF r.err # NoError
                        THEN CallReturn(ReturnErr(r.err, "dispatch"))
                        ELSE /\ kRet' = NoReturn
                             /\ kPc' = IF NumMiddleware = 0 THEN "provider" ELSE "request"
    /\ UNCHANGED kConfig

\* the request loop going on to the next middleware after an error
ProcessRequest_SwallowsError(fails) ==
    /\ kPc = "request"
    /\ kLog' = Append(kLog, Invocation("ProcessRequest", kConfig.Middleware[kIdx],
                                       kCur.processedBy))
    /\ kCur' = IF fails THEN kCur
               ELSE [kCur EXCEPT !.processedBy = Append(@, kConfig.Middleware[kIdx])]
    /\ kRet' = IF fails
               THEN ReturnErr(WrapError(ErrMiddleware, ErrCodeInvalidRequest, kProv),
                              "request")
               ELSE kRet
    /\ IF kIdx = NumMiddleware
       THEN kPc' = "provider" /\ UNCHANGED kIdx
       ELSE kIdx' = kIdx + 1 /\ UNCHANGED kPc
    /\ UNCHANGED <<kConfig, kOp, kReq, kProv, kResp, nCalls>>

\* one turn of the request loop, lines 173-179 and 212-218
ProcessRequest(fails) ==
    /\ kPc = "request"
    /\ kLog' = Append(kLog, Invocation("ProcessRequest", kConfig.Middleware[kIdx],
                                       kCur.processedBy))
    /\ IF fails
       THEN /\ CallReturn(ReturnErr(WrapError(ErrMiddleware, ErrCodeInvalidRequest, kProv),
                                    "request"))
            /\ UNCHANGED <<kCur, kIdx>>
       ELSE /\ kCur' = [kCur EXCEPT !.processedBy = Append(@, kConfig.Middleware[kIdx])]
            /\ kRet' = kRet
            /\ IF kIdx = NumMiddleware
               THEN kPc' = "provider" /\ UNCHANGED kIdx
               ELSE kIdx' = kIdx + 1 /\ UNCHANGED kPc
    /\ UNCHANGED <<kConfig, kOp, kReq, kProv, kResp, nCalls>>

\* provider.Complete (lines 182-185) or provider.Stream (lines 221-224)
ProviderCall(fails) ==
    /\ kPc = "provider"
    /\ kCur' = [kCur EXCEPT !.Stream = (kOp = "stream")]
    /\ kLog' = Append(kLog, Invocation(IF kOp = "stream" THEN "Stream" ELSE "Complete",
                                       kProv, kCur.processedBy))
    /\ kIdx' = 1
    /\ IF fails
       THEN CallReturn(ReturnErr(ErrProviderFailed, "provider")) /\ UNCHANGED kResp
       ELSE IF kOp = "stream"
       THEN CallReturn(ReturnNil) /\ UNCHANGED kResp
       ELSE /\ kResp' = NoResponse
            /\ IF NumMiddleware = 0
               THEN CallReturn(ReturnResp(NoResponse))
               ELSE kPc' = "response" /\ kRet' = kRet
    /\ UNCHANGED <<kConfig, kOp, kReq, kProv, nCalls>>

\* one turn of Complete's response loop, lines 188-193
ProcessResponse(fails) ==
    /\ kPc = "response"
    /\ kLog' = Append(kLog, Invocation("ProcessResponse", kConfig.Middleware[kIdx],
                                       kResp.processedBy))
    /\ IF fails
       THEN /\ CallReturn(ReturnErr(WrapError(ErrMiddleware, ErrServerError, kProv),
                                    "response"))
            /\ UNCHANGED <<kResp, kIdx>>
       ELSE LET resp == [kResp EXCEPT !.processedBy = Append(@, kConfig.Middleware[kIdx])]
            IN /\ kResp' = resp
               /\ IF kIdx = NumMiddleware
                  THEN CallReturn(ReturnResp(resp)) /\ UNCHANGED kIdx
                  ELSE kIdx' = kIdx + 1 /\ UNCHANGED <<kPc, kRet>>
    /\ UNCHANGED <<kConfig, kOp, kReq, kCur, kProv, nCalls>>

CallNext ==
    \/ \E op \in { "complete", "stream" }, req \in Requests :
          Call(op, req) /\ UNCHANGED otherThanCall
    \/ \E fails \in BOOLEAN : ProcessRequest(fails) /\ UNCHANGED otherThanCall
    \/ \E fails \in BOOLEAN : ProviderCall(fails) /\ UNCHANGED otherThanCall
    \/ \E fails \in BOOLEAN : ProcessResponse(fails) /\ UNCHANGED otherThanCall

(***************************************************************************)
(* OAIClient and R8Client (src/client_openai.go, src/client_replicate.go): *)
(* SendCompletionRequest and SendStreamRequest on a pkg/aiutil             *)
(* conversation used by one caller at a time, and SeedConversation.        *)
(***************************************************************************)
LegacyClients == { "oai", "r8" }

UserPrompts == { <<"a">>, <<"a", "b">> }

ResponseTexts == { << >>, <<"a">>, <<"a", "b", "c">> }

\* the deltas a stream carries
StreamDeltas == { << >>, <<"a", "b">> }

\* what the provider call of SendCompletionRequest gives back: an error, no
\* choices (OpenAI) or a nil output (Replicate), an output that is neither a
\* string nor a list (Replicate), or a text
ProviderOutcome(kind, text) == [kind |-> kind, text |-> text]

ProviderOutcomes ==
    { ProviderOutcome(k, << >>) : k \in { "err", "nil", "badtype" } }
        \cup { ProviderOutcome("text", t) : t \in ResponseTexts }

ErrAppendUser == "failed to append user prompt"
ErrProviderCall == "provider call failed"
ErrEmptyResponse == "received empty response from model"
ErrUnexpectedOutput == "replicate run returned unexpected output type"
ErrAppendAssistant == "failed to append assistant response"
ErrCreateStream == "failed to create stream"
ErrReceiveStream == "error receiving stream data"
ErrStreamCancelled == "context cancelled during stream"
ErrStreamTimeout == "replicate stream timed out"

\* Conversation.Append by a caller that is alone on the conversation: the
\* messages and the count it leaves, and what it returns
AppendTo(msgs, count, m, encodingFails) ==
    IF encodingFails
    THEN [err |-> ErrEncoding, msgs |-> msgs, count |-> count]
    ELSE IF count + EstimateMessageTokens(m) > MaxTokens
    THEN [err |-> ErrMaxTokens, msgs |-> msgs, count |-> count]
    ELSE [err |-> ErrNil, msgs |-> Append(msgs, m),
          count |-> count + EstimateMessageTokens(m)]

\* conv.RemoveLastMessageIfRole(role): the last message goes when it has the
\* role; the running total is either kept or reduced by the message's cost
RemoveLastMessageIfRole(msgs, count, role) ==
    IF msgs # << >> /\ msgs[Len(msgs)].Role = role
    THEN { [msgs |-> SubSeq(msgs, 1, Len(msgs) - 1), count |-> n] :
             n \in { count, count - EstimateMessageTokens(msgs[Len(msgs)]) } }
    ELSE { [msgs |-> msgs, count |-> count] }

NoLegacyCall ==
    [op |-> "none", client |-> "", before |-> << >>, prompt |-> << >>,
     err |-> ErrNone, sent |-> << >>]

LegacyCall(op, client, prompt, err, sent) ==
    [op |-> op, client |-> client, before |-> Messages, prompt |-> prompt,
     err |-> err, sent |-> sent]

LegacyIdle ==
    /\ lPc = "idle"
    /\ lClient = ""
    /\ lBuilder = << >>
    /\ lTodo = { }
    /\ lLast = NoLegacyCall
    /\ lSeeded = { }
    /\ nLegacy = 0

\* a new conversation of any budget, no Append running on it
LegacyConvInit ==
    /\ \E mt \in MaxTokensInputs : NewConversation(<<"a">>, mt)
    /\ mutex = "free"
    /\ appPc = [g \in Goroutines |-> "idle"]
    /\ appMsg = [g \in Goroutines |-> ChatMessage(RoleUser, << >>, NoParts)]
    /\ tokCount = [g \in Goroutines |-> 0]
    /\ appRet = [g \in Goroutines |-> ErrNone]
    /\ appSnap = [g \in Goroutines |-> [Messages |-> << >>, TokenCount |-> 0]]
    /\ okLog = << >>
    /\ nAppends = 0

appRest == <<MaxTokens, mutex, appPc, appMsg, tokCount, appRet, appSnap, okLog,
             nAppends>>

\* the conversation is left as c says and the call's result is recorded
LegacyReturn(c, call) ==
    /\ Messages' = c.msgs
    /\ TokenCount' = c.count
    /\ lLast' = call
    /\ lPc' = "idle"

\* the failure paths: the user message is taken back, then the error returns
LegacyFail(c, call) ==
    \E r \in RemoveLastMessageIfRole(c.msgs, c.count, RoleUser) : LegacyReturn(r, call)

\* the error the provider's answer is turned into, ErrNil when it is usable
OutcomeError(client, outcome) ==
    CASE outcome.kind = "err" -> ErrProviderCall
      [] outcome.kind = "nil" -> ErrEmptyResponse
      [] outcome.kind = "badtype" -> ErrUnexpectedOutput
      [] outcome.kind = "text" /\ outcome.text = << >> /\ client = "oai" -> ErrEmptyResponse
      [] OTHER -> ErrNil

\* SendCompletionRequest leaving the user message behind when the assistant
\* Append is rejected
SendCompletionRequest_KeepsUserOnReject(client, prompt, outcome, userEncFails, asstEncFails) ==
    /\ lPc = "idle"
    /\ nLegacy < MaxLegacyCalls
    /\ outcome.kind = "badtype" => client = "r8"
    /\ nLegacy' = nLegacy + 1
    /\ lClient' = client
    /\ LET u == AppendTo(Messages, TokenCount, ChatMessage(RoleUser, prompt, NoParts),
                         userEncFails)
           a == AppendTo(u.msgs, u.count,
                         ChatMessage(RoleAssistant, outcome.text, NoParts), asstEncFails)
           call(e) == LegacyCall("completion", client, prompt, e, << >>)
       IN IF u.err # ErrNil
          THEN LegacyReturn(u, call(ErrAppendUser))
          ELSE IF OutcomeError(client, outcome) # ErrNil
          THEN LegacyFail(u, call(OutcomeError(client, outcome)))
          ELSE IF a.err # ErrNil
          THEN LegacyReturn(a, call(ErrAppendAssistant))
          ELSE LegacyReturn(a, call(ErrNil))
    /\ UNCHANGED <<lBuilder, lTodo, lSeeded, appRest>>

\* OAIClient.SendCompletionRequest (lines 58-99) and
\* R8Client.SendCompletionRequest (lines 219-276)
SendCompletionRequest(client, prompt, outcome, userEncFails, asstEncFails) ==
    /\ lPc = "idle"
    /\ nLegacy < MaxLegacyCalls
    /\ outcome.kind = "badtype" => client = "r8"
    /\ nLegacy' = nLegacy + 1
    /\ lClient' = client
    /\ LET u == AppendTo(Messages, TokenCount, ChatMessage(RoleUser, prompt, NoParts),
                         userEncFails)
           a == AppendTo(u.msgs, u.count,
                         ChatMessage(RoleAssistant, outcome.text, NoParts), asstEncFails)
           call(e) == LegacyCall("completion", client, prompt, e, << >>)
       IN IF u.err # ErrNil
          THEN LegacyReturn(u, call(ErrAppendUser))
          ELSE IF OutcomeError(client, outcome) # ErrNil
          THEN LegacyFail(u, call(OutcomeError(client, outcome)))
          ELSE IF a.err # ErrNil
          THEN LegacyFail(a, call(ErrAppendAssistant))
          ELSE LegacyReturn(a, call(ErrNil))
    /\ UNCHANGED <<lBuilder, lTodo, lSeeded, appRest>>

\* SendStreamRequest up to the open stream: OAIClient lines 102-127, R8Client
\* lines 279-319; created: "ok", "badmodel" (R8Client: the model has no
\* version part) or "err" (the stream or the prediction could not be created)
SendStreamRequest(client, prompt, userEncFails, created) ==
    /\ lPc = "idle"
    /\ nLegacy < MaxLegacyCalls
    /\ created = "badmodel" => client = "r8"
    /\ nLegacy' = nLegacy + 1
    /\ lClient' = client
    /\ lBuilder' = << >>
    /\ LET u == AppendTo(Messages, TokenCount, ChatMessage(RoleUser, prompt, NoParts),
                         userEncFails)
           call(e) == LegacyCall("stream", client, prompt, e, << >>)
       IN IF u.err # ErrNil
          THEN LegacyReturn(u, call(ErrAppendUser))
          ELSE IF created # "ok"
          THEN LegacyFail(u, call(ErrCreateStream))
          ELSE /\ Messages' = u.msgs
               /\ TokenCount' = u.count
               /\ lLast' = call(ErrNone)
               /\ lPc' = "stream"
    /\ UNCHANGED <<lTodo, lSeeded, appRest>>

\* a delta (OAIClient lines 142-147) or an output event (R8Client lines
\* 332-334) arrives: it is added to the builder and sent on responseChan
StreamRecvDelta(text) ==
    /\ lPc = "stream"
    /\ Len(lLast.sent) < MaxChunks
    /\ lBuilder' = lBuilder \o text
    /\ lLast' = [lLast EXCEPT !.sent = Append(@, text)]
    /\ UNCHANGED <<Messages, TokenCount, lPc, lClient, lTodo, lSeeded, nLegacy, appRest>>

\* the stream breaks: Recv fails (OAIClient lines 137-141), an error event or
\* a failure of the stream function arrives, the context is cancelled or the
\* five minutes pass (R8Client lines 361-376)
StreamRecvError(reason) ==
    /\ lPc = "stream"
    /\ reason \in { ErrStreamCancelled, ErrStreamTimeout } => lClient = "r8"
    /\ LegacyFail([msgs |-> Messages, count |-> TokenCount],
                  [lLast EXCEPT !.err = reason])
    /\ UNCHANGED <<lClient, lBuilder, lTodo, lSeeded, nLegacy, appRest>>

\* the stream ends (io.EOF, or both channels closed): the assistant reply is
\* appended, OAIClient lines 150-164, R8Client lines 378-387
StreamRecvEOF(asstEncFails) ==
    /\ lPc = "stream"
    /\ LET a == AppendTo(Messages, TokenCount,
                         ChatMessage(RoleAssistant, lBuilder, NoParts), asstEncFails)
       IN IF a.err # ErrNil
          THEN LegacyReturn(a, [lLast EXCEPT !.err = ErrAppendAssistant])
          ELSE LegacyReturn(a, [lLast EXCEPT !.err = ErrNil])
    /\ UNCHANGED <<lClient, lBuilder, lTodo, lSeeded, nLegacy, appRest>>

\* the maps handed to SeedConversation: request -> response
SeedMaps == UNION { [K -> ResponseTexts] : K \in SUBSET UserPrompts }

\* SeedConversation is called with a map
SeedConversation(requestResponseMap) ==
    /\ lPc = "idle"
    /\ nLegacy < MaxLegacyCalls
    /\ nLegacy' = nLegacy + 1
    /\ lLast' = LegacyCall("seed", "", << >>, ErrNil, << >>)
    /\ lSeeded' = { }
    /\ lTodo' = { <<u, requestResponseMap[u]>> : u \in DOMAIN requestResponseMap }
    /\ lPc' = IF DOMAIN requestResponseMap = { } THEN "idle" ELSE "seed"
    /\ UNCHANGED <<Messages, TokenCount, lClient, lBuilder, appRest>>

\* one turn of SeedConversation's loop (lines 70-79): the map is visited in
\* any order, and what the two Appends return is dropped
SeedPair(userEncFails, asstEncFails) ==
    /\ lPc = "seed"
    /\ \E pair \in lTodo :
          LET u == AppendTo(Messages, TokenCount,
                            ChatMessage(RoleUser, pair[1], NoParts), userEncFails)
              a == AppendTo(u.msgs, u.count,
                            ChatMessage(RoleAssistant, pair[2], NoParts), asstEncFails)
          IN /\ Messages' = a.msgs
             /\ TokenCount' = a.count
             /\ lSeeded' = lSeeded \cup { [user |-> pair[1], response |-> pair[2],
                                          userAt |-> IF u.err = ErrNil
                                                     THEN Len(u.msgs) ELSE 0,
                                          assistantAt |-> IF a.err = ErrNil
                                                          THEN Len(a.msgs) ELSE 0] }
             /\ lTodo' = lTodo \ { pair }
             /\ lPc' = IF lTodo = { pair } THEN "idle" ELSE "seed"
    /\ UNCHANGED <<lClient, lBuilder, lLast, nLegacy, appRest>>

StreamBreaks == { ErrReceiveStream, ErrStreamCancelled, ErrStreamTimeout }

LegacyNext ==
    \/ \E client \in LegacyClients, prompt \in UserPrompts,
          outcome \in ProviderOutcomes, userEncFails, asstEncFails \in BOOLEAN :
          SendCompletionRequest(client, prompt, outcome, userEncFails, asstEncFails)
             /\ UNCHANGED otherThanLegacy
    \/ \E client \in LegacyClients, prompt \in UserPrompts, userEncFails \in BOOLEAN,
          created \in { "ok", "badmodel", "err" } :
          SendStreamRequest(client, prompt, userEncFails, created)
             /\ UNCHANGED otherThanLegacy
    \/ \E text \in StreamDeltas : StreamRecvDelta(text) /\ UNCHANGED otherThanLegacy
    \/ \E reason \in StreamBreaks : StreamRecvError(reason) /\ UNCHANGED otherThanLegacy
    \/ \E asstEncFails \in BOOLEAN : StreamRecvEOF(asstEncFails) /\ UNCHANGED otherThanLegacy
    \/ \E m \in SeedMaps : SeedConversation(m) /\ UNCHANGED otherThanLegacy
    \/ \E userEncFails, asstEncFails \in BOOLEAN :
          SeedPair(userEncFails, asstEncFails) /\ UNCHANGED otherThanLegacy

AppNext ==
    \/ \E g \in Goroutines, m \in AppendInputs :
          AppendCall(g, m) /\ UNCHANGED otherThanApp
    \/ \E g \in Goroutines : AppendLock(g) /\ UNCHANGED otherThanApp
    \/ \E g \in Goroutines : AppendEstimate(g) /\ UNCHANGED otherThanApp
    \/ \E g \in Goroutines : AppendCheck(g) /\ UNCHANGED otherThanApp
    \/ \E g \in Goroutines : AppendCommitCount(g) /\ UNCHANGED otherThanApp
    \/ \E g \in Goroutines : AppendCommitMsg(g) /\ UNCHANGED otherThanApp
    \/ \E g \in Goroutines : AppendUnlock(g) /\ UNCHANGED otherThanApp

RetryNext ==
    \/ \E outcome \in FnOutcomes : RetryAttempt(outcome) /\ UNCHANGED otherThanRetry
    \/ RetryWaitElapsed /\ UNCHANGED otherThanRetry
    \/ RetryWaitCancelled /\ UNCHANGED otherThanRetry
    \/ CancelContext /\ UNCHANGED otherThanRetry

(***************************************************************************)
(* The messages of a client Conversation as Go values. c.Messages is a     *)
(* slice of *types.Message: `objs` is the heap of the Message objects and  *)
(* a slice is a sequence of addresses into it. The caller holds what       *)
(* GetMessages or GetLastMessage returned and writes through it.           *)
(***************************************************************************)
\* the nil pointer GetLastMessage returns for an empty conversation
NilPtr == 0

NilMessage == [ID |-> NilPtr, Role |-> "nil", Text |-> << >>]

ReadTexts == { Chars(1), Chars(2) }

\* *p in the heap h
Deref(h, p) == IF p = NilPtr THEN NilMessage ELSE h[p]

\* the messages a slice of pointers shows in the heap h
View(h, slice) == [i \in 1 .. Len(slice) |-> Deref(h, slice[i])]

NoRead == [kind |-> "none", slice |-> << >>, ptr |-> NilPtr]

\* the messages reachable from what the caller holds
HeldView(h, g) ==
    IF g.kind = "messages" THEN View(h, g.slice)
    ELSE IF g.kind = "last" THEN << Deref(h, g.ptr) >>
    ELSE << >>

ReadOp(op) ==
    [op |-> op,
     storedBefore |-> View(objs, rMessages), storedAfter |-> View(objs', rMessages'),
     heldBefore |-> HeldView(objs, got), heldAfter |-> HeldView(objs', got)]

\* Client.NewConversation: an empty slice, then the system message if any
ReadInitWith(systemPrompt) ==
    /\ objs = IF systemPrompt = << >> THEN << >>
              ELSE << NewTextMessage(1, RoleSystem, systemPrompt) >>
    /\ rMessages = IF systemPrompt = << >> THEN << >> ELSE << 1 >>
    /\ got = NoRead
    /\ rLast = [op |-> "new", storedBefore |-> << >>, storedAfter |-> << >>,
                heldBefore |-> << >>, heldAfter |-> << >>]
    /\ nWrites = 0

ReadInit == \E sp \in { << >>, Chars(1) } : ReadInitWith(sp)

ReadIdle == ReadInitWith(<< >>)

\* Conversation.AddMessage: c.Messages = append(c.Messages, message), with
\* message a newly allocated object (AddUserMessage, AddAssistantMessage)
StoreMessage(role, text) ==
    /\ Len(objs) < MaxMessageObjects
    /\ objs' = Append(objs, NewTextMessage(Len(objs) + 1, role, text))
    /\ rMessages' = Append(rMessages, Len(objs) + 1)
    /\ UNCHANGED <<got, nWrites>>
    /\ rLast' = ReadOp("AddMessage")

\* Conversation.removeOldestNonSystemMessage, as TruncateToFit calls it:
\* c.Messages = append(c.Messages[:i], c.Messages[i+1:]...)
RemoveOldest(preserveSystem) ==
    LET removable == Removable(View(objs, rMessages), preserveSystem)
    IN /\ removable # { }
       /\ rMessages' = RemoveAt(rMessages, SetMin(removable))
       /\ UNCHANGED <<objs, got, nWrites>>
       /\ rLast' = ReadOp("TruncateToFit")

\* Conversation.Clear: c.Messages = make([]*types.Message, 0)
ClearMessages ==
    /\ rMessages # << >>
    /\ rMessages' = << >>
    /\ UNCHANGED <<objs, got, nWrites>>
    /\ rLast' = ReadOp("Clear")

\* Conversation.GetMessages: make a slice of the same length and copy the
\* pointers into it
GetMessages ==
    /\ got' = [kind |-> "messages", slice |-> rMessages, ptr |-> NilPtr]
    /\ UNCHANGED <<objs, rMessages, nWrites>>
    /\ rLast' = [ReadOp("GetMessages") EXCEPT !.heldAfter = View(objs, rMessages)]

\* Conversation.GetLastMessage: nil or the stored pointer c.Messages[len-1]
GetLastMessage ==
    LET p == IF Len(rMessages) = 0 THEN NilPtr ELSE rMessages[Len(rMessages)]
    IN /\ got' = [kind |-> "last", slice |-> << >>, ptr |-> p]
       /\ UNCHANGED <<objs, rMessages, nWrites>>
       /\ rLast' = [ReadOp("GetLastMessage") EXCEPT !.heldAfter = << Deref(objs, p) >>]

\* the caller assigns to an element of the slice it was returned:
\* messages[i] = p
CallerSetsElement(i, p) ==
    /\ nWrites < MaxCallerWrites
    /\ got.kind = "messages"
    /\ i \in 1 .. Len(got.slice)
    /\ p # got.slice[i]
    /\ got' = [got EXCEPT !.slice[i] = p]
    /\ nWrites' = nWrites + 1
    /\ UNCHANGED <<objs, rMessages>>
    /\ rLast' = [ReadOp("callerSetsElement") EXCEPT !.heldAfter = HeldView(objs, got')]

\* the pointers the caller can reach from what it holds
HeldPtrs ==
    ( IF got.kind = "messages" THEN { got.slice[i] : i \in 1 .. Len(got.slice) }
      ELSE { got.ptr } ) \ { NilPtr }

\* the caller writes a field of a message it was returned a pointer to:
\* msg.Content = ...
CallerEditsMessage(p, text) ==
    /\ nWrites < MaxCallerWrites
    /\ p \in HeldPtrs
    /\ objs[p].Text # text
    /\ objs' = [objs EXCEPT ![p].Text = text]
    /\ nWrites' = nWrites + 1
    /\ UNCHANGED <<rMessages, got>>
    /\ rLast' = ReadOp("callerEditsMessage")

ReadNext ==
    \/ \E role \in { RoleUser, RoleAssistant }, text \in ReadTexts :
          StoreMessage(role, text) /\ UNCHANGED otherThanRead
    \/ \E preserveSystem \in BOOLEAN : RemoveOldest(preserveSystem) /\ UNCHANGED otherThanRead
    \/ ClearMessages /\ UNCHANGED otherThanRead
    \/ GetMessages /\ UNCHANGED otherThanRead
    \/ GetLastMessage /\ UNCHANGED otherThanRead
    \/ \E i \in 1 .. MaxMessageObjects, p \in NilPtr .. Len(objs) :
          CallerSetsElement(i, p) /\ UNCHANGED otherThanRead
    \/ \E p \in 1 .. Len(objs), text \in ReadTexts :
          CallerEditsMessage(p, text) /\ UNCHANGED otherThanRead

(***************************************************************************)
(* SendStreamRequest and its two channels. responseChan and errChan are    *)
(* unbuffered and the consumer receives from both until it has seen both   *)
(* closed, so a send on an open channel is one step. A send on a closed    *)
(* channel panics and the process is gone. What the call does to the       *)
(* conversation is modelled in the section on OAIClient and R8Client.      *)
(***************************************************************************)
\* OAIClient, R8Client, and the older R8Client.SendStreamRequest
StreamClients == { "oai", "r8", "r8old" }

Channel(closed, closes, sent, late) ==
    [closed |-> closed, closes |-> closes, sent |-> sent, late |-> late]

\* make(chan string), make(chan error)
NewChannel == Channel(FALSE, 0, 0, 0)

\* ch <- v
SendOn(ch) ==
    IF ch.closed THEN [ch EXCEPT !.late = @ + 1] ELSE [ch EXCEPT !.sent = @ + 1]

\* close(ch)
Close(ch) == [ch EXCEPT !.closed = TRUE, !.closes = @ + 1]

\* make(chan error, 1)
NewStreamErrChan == [buf |-> << >>, closed |-> FALSE]

ChanInitWith(client, pc) ==
    /\ hClient = client
    /\ hPc = pc
    /\ goPc = "none"
    /\ responseChan = NewChannel
    /\ errChan = NewChannel
    /\ streamErrChan = NewStreamErrChan
    /\ evNil = FALSE
    /\ errNil = FALSE
    /\ hEvents = 0
    /\ streamCtxDone = FALSE
    /\ panicked = FALSE
    /\ seenClosed = { }

\* go client.SendStreamRequest(ctx, conv, prompt, responseChan, errChan)
ChanInit == \E client \in StreamClients : ChanInitWith(client, "start")

ChanIdle == ChanInitWith("", "idle")

\* what the call finds before it starts to stream
StartOutcomes(client) ==
    CASE client = "oai" -> { "nilconv", "appendfails", "createfails", "ok" }
      [] client = "r8" -> { "nilconv", "appendfails", "badmodel", "createfails", "ok" }
      [] OTHER -> { "nilconv", "createfails", "waitfails", "ok" }

\* errChan <- err; return
SendErrorAndReturn ==
    /\ errChan' = SendOn(errChan)
    /\ panicked' = errChan.closed
    /\ hPc' = "return"

\* responseChan <- data, in the call or in its goroutine
SendResponse ==
    /\ responseChan' = SendOn(responseChan)
    /\ panicked' = responseChan.closed

\* the call up to its loop: OAIClient lines 105-127, R8Client lines 282-320,
\* the older R8Client lines 54-87 as a whole
StreamCallStart(outcome) ==
    /\ ~panicked
    /\ hPc = "start"
    /\ outcome \in StartOutcomes(hClient)
    /\ IF outcome # "ok"
       THEN /\ SendErrorAndReturn
            /\ UNCHANGED <<goPc, responseChan>>
       ELSE CASE hClient = "oai" ->
                   /\ hPc' = "recv"
                   /\ UNCHANGED <<goPc, responseChan, errChan, panicked>>
              [] hClient = "r8" ->
                   /\ hPc' = "wait"
                   /\ goPc' = "loop"
                   /\ UNCHANGED <<responseChan, errChan, panicked>>
              [] OTHER ->
                   /\ SendResponse
                   /\ hPc' = "return"
                   /\ UNCHANGED <<goPc, errChan>>
    /\ UNCHANGED <<hClient, streamErrChan, evNil, errNil, hEvents, streamCtxDone,
                   seenClosed>>

\* OAIClient lines 132-148: one stream.Recv()
OAIRecv(kind) ==
    /\ ~panicked
    /\ hPc = "recv"
    /\ kind \in { "delta", "nochoices" } => hEvents < MaxStreamEvents
    /\ hEvents' = hEvents + 1
    /\ CASE kind = "delta" ->
              /\ SendResponse
              /\ UNCHANGED <<hPc, errChan>>
         [] kind = "nochoices" ->
              UNCHANGED <<hPc, responseChan, errChan, panicked>>
         [] kind = "err" ->
              /\ SendErrorAndReturn
              /\ UNCHANGED responseChan
         [] OTHER ->
              /\ hPc' = "append"
              /\ UNCHANGED <<responseChan, errChan, panicked>>
    /\ UNCHANGED <<hClient, goPc, streamErrChan, evNil, errNil, streamCtxDone,
                   seenClosed>>

\* the goroutine returns: the deferred close(streamErrChan)
GoExit(sent) ==
    /\ goPc' = "exited"
    /\ streamErrChan' = [buf |-> streamErrChan.buf \o sent, closed |-> TRUE]

\* R8Client lines 325-340: an event arrives on streamEventChan
GoEvent(type) ==
    /\ ~panicked
    /\ goPc = "loop"
    /\ ~evNil
    /\ hEvents < MaxStreamEvents
    /\ hEvents' = hEvents + 1
    /\ CASE type = "output" ->
              /\ SendResponse
              /\ UNCHANGED <<goPc, streamErrChan>>
         [] type = "error" ->
              /\ GoExit(<< "replicate stream error" >>)
              /\ UNCHANGED <<responseChan, panicked>>
         [] OTHER ->
              UNCHANGED <<goPc, streamErrChan, responseChan, panicked>>
    /\ UNCHANGED <<hClient, hPc, errChan, evNil, errNil, streamCtxDone, seenClosed>>

\* R8Client lines 326-327 and 354-357: streamEventChan is closed
GoEventsClosed ==
    /\ ~panicked
    /\ goPc = "loop"
    /\ ~evNil
    /\ evNil' = TRUE
    /\ IF errNil THEN GoExit(<< >>) ELSE UNCHANGED <<goPc, streamErrChan>>
    /\ UNCHANGED <<hClient, hPc, responseChan, errChan, errNil, hEvents,
                   streamCtxDone, panicked, seenClosed>>

\* R8Client lines 341-348: streamErrFromChan delivers an error or is closed
GoErrFromChan(closed) ==
    /\ ~panicked
    /\ goPc = "loop"
    /\ ~errNil
    /\ IF closed
       THEN /\ errNil' = TRUE
            /\ IF evNil THEN GoExit(<< >>) ELSE UNCHANGED <<goPc, streamErrChan>>
       ELSE /\ GoExit(<< "replicate stream function failed" >>)
            /\ UNCHANGED errNil
    /\ UNCHANGED <<hClient, hPc, responseChan, errChan, evNil, hEvents,
                   streamCtxDone, panicked, seenClosed>>

\* R8Client lines 349-351: the goroutine's select takes ctx.Done()
GoCtxDone ==
    /\ ~panicked
    /\ goPc = "loop"
    /\ streamCtxDone
    /\ GoExit(<< "context cancelled during stream processing" >>)
    /\ UNCHANGED <<hClient, hPc, responseChan, errChan, evNil, errNil, hEvents,
                   streamCtxDone, panicked, seenClosed>>

\* R8Client lines 361-367: the select receives from streamErrChan, an error
\* the goroutine sent or the zero value of the closed channel
R8WaitStreamErr ==
    /\ ~panicked
    /\ hPc = "wait"
    /\ streamErrChan.buf # << >> \/ streamErrChan.closed
    /\ IF streamErrChan.buf # << >>
       THEN /\ streamErrChan' = [streamErrChan EXCEPT !.buf = << >>]
            /\ SendErrorAndReturn
       ELSE /\ hPc' = "append"
            /\ UNCHANGED <<streamErrChan, errChan, panicked>>
    /\ UNCHANGED <<hClient, goPc, responseChan, evNil, errNil, hEvents,
                   streamCtxDone, seenClosed>>

\* R8Client lines 368-371: the select takes ctx.Done()
R8WaitCtxDone ==
    /\ ~panicked
    /\ hPc = "wait"
    /\ streamCtxDone
    /\ SendErrorAndReturn
    /\ UNCHANGED <<hClient, goPc, responseChan, streamErrChan, evNil, errNil,
                   hEvents, streamCtxDone, seenClosed>>

\* R8Client lines 372-375: the five minutes pass
R8WaitTimeout ==
    /\ ~panicked
    /\ hPc = "wait"
    /\ SendErrorAndReturn
    /\ UNCHANGED <<hClient, goPc, responseChan, streamErrChan, evNil, errNil,
                   hEvents, streamCtxDone, seenClosed>>

\* OAIClient lines 150-164, R8Client lines 378-387: the assistant reply is
\* appended; a rejected Append is sent on errChan
AppendAssistant(fails) ==
    /\ ~panicked
    /\ hPc = "append"
    /\ IF fails THEN SendErrorAndReturn
       ELSE hPc' = "return" /\ UNCHANGED <<errChan, panicked>>
    /\ UNCHANGED <<hClient, goPc, responseChan, streamErrChan, evNil, errNil,
                   hEvents, streamCtxDone, seenClosed>>

\* the deferred close(errChan), the first to run
CloseErrChan ==
    /\ ~panicked
    /\ hPc = "return"
    /\ errChan' = Close(errChan)
    /\ hPc' = "closeResponse"
    /\ UNCHANGED <<hClient, goPc, responseChan, streamErrChan, evNil, errNil,
                   hEvents, streamCtxDone, panicked, seenClosed>>

\* the deferred close(responseChan); the call has returned
CloseResponseChan ==
    /\ ~panicked
    /\ hPc = "closeResponse"
    /\ responseChan' = Close(responseChan)
    /\ hPc' = "done"
    /\ UNCHANGED <<hClient, goPc, errChan, streamErrChan, evNil, errNil, hEvents,
                   streamCtxDone, panicked, seenClosed>>

\* the caller cancels ctx
CancelStreamContext ==
    /\ ~panicked
    /\ ~streamCtxDone
    /\ hPc \in { "wait", "recv" }
    /\ streamCtxDone' = TRUE
    /\ UNCHANGED <<hClient, hPc, goPc, responseChan, errChan, streamErrChan, evNil,
                   errNil, hEvents, panicked, seenClosed>>

\* the consumer's receive finds the channel closed (README lines 100-118)
ConsumerSeesClose(name) ==
    /\ ~panicked
    /\ name \notin seenClosed
    /\ IF name = "errChan" THEN errChan.closed ELSE responseChan.closed
    /\ seenClosed' = seenClosed \cup { name }
    /\ UNCHANGED <<hClient, hPc, goPc, responseChan, errChan, streamErrChan, evNil,
                   errNil, hEvents, streamCtxDone, panicked>>

\* the steps of the call, of its goroutine, of the stream and of the consumer
ChanProgress ==
    \/ \E outcome \in { "nilconv", "appendfails", "badmodel", "createfails",
                        "waitfails", "ok" } :
          StreamCallStart(outcome) /\ UNCHANGED otherThanChan
    \/ \E kind \in { "delta", "nochoices", "err", "eof" } :
          OAIRecv(kind) /\ UNCHANGED otherThanChan
    \/ \E type \in { "output", "error", "logs" } : GoEvent(type) /\ UNCHANGED otherThanChan
    \/ GoEventsClosed /\ UNCHANGED otherThanChan
    \/ \E closed \in BOOLEAN : GoErrFromChan(closed) /\ UNCHANGED otherThanChan
    \/ GoCtxDone /\ UNCHANGED otherThanChan
    \/ R8WaitStreamErr /\ UNCHANGED otherThanChan
    \/ R8WaitCtxDone /\ UNCHANGED otherThanChan
    \/ \E fails \in BOOLEAN : AppendAssistant(fails) /\ UNCHANGED otherThanChan
    \/ CloseErrChan /\ UNCHANGED otherThanChan
    \/ CloseResponseChan /\ UNCHANGED otherThanChan
    \/ \E name \in { "responseChan", "errChan" } :
          ConsumerSeesClose(name) /\ UNCHANGED otherThanChan

ChanNext ==
    \/ ChanProgress
    \/ R8WaitTimeout /\ UNCHANGED otherThanChan
    \/ CancelStreamContext /\ UNCHANGED otherThanChan

(***************************************************************************)
(* SendCompletionRequest calls of several goroutines on one pkg/aiutil     *)
(* conversation. Append and RemoveLastMessageIfRole each run under the     *)
(* conversation's mutex; the provider call between them holds no lock.     *)
(* qOwners records, message by message, the call that appended it.         *)
(***************************************************************************)
NoRemoval == [failed |-> FALSE, by |-> "", removed |-> "", appended |-> FALSE]

ConcInit ==
    /\ qPc = [g \in Goroutines |-> "idle"]
    /\ qOwners = [i \in 1 .. Len(Messages) |-> ""]
    /\ qLast = NoRemoval

ConcIdle ==
    /\ qPc = [g \in Goroutines |-> "idle"]
    /\ qOwners = << >>
    /\ qLast = NoRemoval

\* SendCompletionRequest up to the provider call (OAIClient lines 58-71,
\* R8Client lines 219-234): the user prompt is appended
ConcurrentSendAppend(g, prompt, userEncFails) ==
    /\ qPc[g] = "idle"
    /\ LET u == AppendTo(Messages, TokenCount, ChatMessage(RoleUser, prompt, NoParts),
                         userEncFails)
       IN /\ Messages' = u.msgs
          /\ TokenCount' = u.count
          /\ qOwners' = IF u.err = ErrNil THEN Append(qOwners, g) ELSE qOwners
          /\ qPc' = [qPc EXCEPT ![g] = IF u.err = ErrNil THEN "provider" ELSE "returned"]
    /\ UNCHANGED <<qLast, appRest>>

\* SendCompletionRequest from the provider's answer on (OAIClient lines
\* 72-98, R8Client lines 236-275): on an error, an unusable answer or a
\* rejected assistant Append the compensating
\* conv.RemoveLastMessageIfRole(user) runs
ConcurrentSendReturn(g, client, outcome, asstEncFails) ==
    /\ qPc[g] = "provider"
    /\ outcome.kind = "badtype" => client = "r8"
    /\ LET a == AppendTo(Messages, TokenCount,
                         ChatMessage(RoleAssistant, outcome.text, NoParts), asstEncFails)
       IN IF OutcomeError(client, outcome) # ErrNil \/ a.err # ErrNil
          THEN \E r \in RemoveLastMessageIfRole(Messages, TokenCount, RoleUser) :
                  /\ Messages' = r.msgs
                  /\ TokenCount' = r.count
                  /\ qOwners' = SubSeq(qOwners, 1, Len(r.msgs))
                  /\ qLast' = [failed |-> TRUE, by |-> g,
                               removed |-> IF Len(r.msgs) < Len(Messages)
                                           THEN qOwners[Len(qOwners)] ELSE "",
                               appended |-> g \in { qOwners[i] : i \in 1 .. Len(qOwners) }]
          ELSE /\ Messages' = a.msgs
               /\ TokenCount' = a.count
               /\ qOwners' = Append(qOwners, g)
               /\ UNCHANGED qLast
    /\ qPc' = [qPc EXCEPT ![g] = "returned"]
    /\ UNCHANGED appRest

ConcNext ==
    \/ \E g \in Goroutines, prompt \in UserPrompts, userEncFails \in BOOLEAN :
          ConcurrentSendAppend(g, prompt, userEncFails) /\ UNCHANGED otherThanConc
    \/ \E g \in Goroutines, client \in LegacyClients, outcome \in ProviderOutcomes,
          asstEncFails \in BOOLEAN :
          ConcurrentSendReturn(g, client, outcome, asstEncFails)
             /\ UNCHANGED otherThanConc

LateIdle == ReadIdle /\ ChanIdle /\ ConcIdle

\* concurrent Append calls on one pkg/aiutil conversation
InitAppend ==
    AppInit /\ RetryIdle /\ ConvIdle /\ SendInitWith /\ StreamIdle /\ ClientIdle
    /\ LegacyIdle /\ CallIdle /\ LateIdle
SpecAppend == InitAppend /\ [][AppNext]_vars

\* one WithRetry call, for every configuration and every behaviour of fn
InitRetry ==
    RetryInit /\ AppIdle /\ ConvIdle /\ SendInitWith /\ StreamIdle /\ ClientIdle
    /\ LegacyIdle /\ CallIdle /\ LateIdle
SpecRetry == InitRetry /\ [][RetryNext]_vars

\* a client conversation that is filled, truncated and cleared
InitTrunc ==
    ConvInit /\ AppIdle /\ RetryIdle /\ SendInitWith /\ StreamIdle /\ ClientIdle
    /\ LegacyIdle /\ CallIdle /\ LateIdle
SpecTrunc == InitTrunc /\ [][TruncNext]_vars

\* one Stream call and one Complete call of an adapter on the same request
InitStream ==
    StreamInit /\ AppIdle /\ RetryIdle /\ ConvIdle /\ SendInitWith /\ ClientIdle
    /\ LegacyIdle /\ CallIdle /\ LateIdle
SpecStream == InitStream /\ [][StreamNext]_vars

\* Send and SendStream on a client conversation
SendConvInit ==
    \E sp \in { << >>, Chars(4) }, known \in BOOLEAN : ConvInitWith(sp, 0, known)
InitSend ==
    SendConvInit /\ StreamInit /\ SendInitWith /\ AppIdle /\ RetryIdle /\ ClientIdle
    /\ LegacyIdle /\ CallIdle /\ LateIdle
SpecSend == InitSend /\ [][SendNext]_vars

\* RegisterProvider calls and dispatched requests on one Client
InitClient ==
    ClientInit /\ AppIdle /\ RetryIdle /\ ConvIdle /\ SendInitWith /\ StreamIdle
    /\ LegacyIdle /\ CallIdle /\ LateIdle
SpecClient == InitClient /\ [][ClientNext]_vars

\* SendCompletionRequest, SendStreamRequest and SeedConversation, one call at
\* a time, on one pkg/aiutil conversation
InitLegacy ==
    LegacyConvInit /\ LegacyIdle /\ RetryIdle /\ ConvIdle /\ SendInitWith /\ StreamIdle
    /\ ClientIdle /\ CallIdle /\ LateIdle
SpecLegacy == InitLegacy /\ [][LegacyNext]_vars

\* Complete and Stream calls on a Client with registered providers
InitCall ==
    CallInit /\ RegisteredClient /\ AppIdle /\ RetryIdle /\ ConvIdle /\ SendInitWith
    /\ StreamIdle /\ LegacyIdle /\ LateIdle
SpecCall == InitCall /\ [][CallNext]_vars

\* every idle value of the specifications above
EarlyIdle ==
    AppIdle /\ RetryIdle /\ ConvIdle /\ SendInitWith /\ StreamIdle /\ ClientIdle
    /\ LegacyIdle /\ CallIdle

\* a conversation that is mutated while a caller holds and writes through
\* what GetMessages and GetLastMessage returned
InitRead == ReadInit /\ ChanIdle /\ ConcIdle /\ EarlyIdle
SpecRead == InitRead /\ [][ReadNext]_vars

\* one SendStreamRequest call running against a consumer of both channels
InitChan == ChanInit /\ ReadIdle /\ ConcIdle /\ EarlyIdle
SpecChan == InitChan /\ [][ChanNext]_vars

\* the same with every step of the call, of its goroutine, of the stream and
\* of the consumer taken when it stays possible; the cancellation and the
\* five-minute timer are left to happen or not
SpecChanLive == SpecChan /\ WF_vars(ChanProgress)

\* SendCompletionRequest calls of two goroutines on one conversation
InitConc ==
    LegacyConvInit /\ ConcInit /\ LegacyIdle /\ RetryIdle /\ ConvIdle /\ SendInitWith
    /\ StreamIdle /\ ClientIdle /\ CallIdle /\ ReadIdle /\ ChanIdle
SpecConc == InitConc /\ [][ConcNext]_vars

Init ==
    AppInit /\ RetryInit /\ ConvInit /\ SendInitWith /\ StreamInit /\ ClientInit
    /\ LegacyIdle /\ CallIdle /\ ReadInit /\ ChanInit /\ ConcInit
Next ==
    AppNext \/ RetryNext \/ TruncNext \/ StreamNext \/ SendNext \/ ClientNext
    \/ LegacyNext \/ CallNext \/ ReadNext \/ ChanNext \/ ConcNext

(***************************************************************************)
(* Claims about pkg/aiutil Conversation.Append.                            *)
(***************************************************************************)
RECURSIVE LoggedMessages(_)
LoggedMessages(log) ==
    IF log = << >> THEN << >> ELSE <<Head(log).m>> \o LoggedMessages(Tail(log))

\* C1: when Append fails because TokenCount plus the message's estimate would
\* exceed MaxTokens, the message list and the token count are what they were
\* when the call began (nothing is partially committed).
C1_RejectedAppendLeavesStateUnchanged ==
    \A g \in Goroutines :
        (appPc[g] = "unlock" /\ appRet[g] = ErrMaxTokens)
            => /\ Messages = appSnap[g].Messages
               /\ TokenCount = appSnap[g].TokenCount

\* C1 witness: with the system prompt and one appended message in place, a
\* further Append was rejected for the budget and is about to return.
C1_Witness ==
    \E g \in Goroutines :
        /\ appPc[g] = "unlock"
        /\ appRet[g] = ErrMaxTokens
        /\ Len(Messages) = 2
        /\ TokenCount > 0

\* C2: for any interleaving of concurrent Append calls (MaxTokens >= 0) the
\* running count never exceeds MaxTokens, and whenever no Append is inside its
\* critical section the messages after the system prompt are exactly the
\* successful Appends in order and the count is the sum of their estimates.
C2_AppendIsAtomic ==
    (MaxTokens >= 0) =>
        /\ TokenCount <= MaxTokens
        /\ (mutex = "free" /\ \A g \in Goroutines : appPc[g] \in {"idle", "lock"})
              => /\ Tail(Messages) = LoggedMessages(okLog)
                 /\ TokenCount = SumTokens(LoggedMessages(okLog))

\* C2 witness: two goroutines both appended with success while the budget was
\* small enough for a third call to be rejected.
C2_Witness ==
    /\ MaxTokens = 3
    /\ Len(okLog) = 2
    /\ okLog[1].by # okLog[2].by
    /\ TokenCount = 3
    /\ \E g \in Goroutines : appRet[g] = ErrMaxTokens /\ appPc[g] = "idle"

\* C10: in every state reached through NewConversation and Append (no Append
\* in progress), TokenCount equals the sum of the estimates of all messages
\* in the conversation, the system prompt included.
C10_TokenCountIsSumOfAllMessages ==
    (\A g \in Goroutines : appPc[g] \in {"idle", "lock"})
        => TokenCount = SumTokens(Messages)

(***************************************************************************)
(* Claims about WithRetry. The claims name error classes by what the       *)
(* error says, independently of the classifiers of the code.               *)
(***************************************************************************)
\* the taxonomy code an error text carries, if it was built by types.NewError
HasCode(e, code) == code \in e

SurfacedCodes ==
    { ErrCodeAuthentication, ErrCodeInvalidRequest, ErrCodeModelNotFound,
      ErrCodeTokenLimitExceeded }

\* authentication, invalid request, not-found
SaysNonRetryable(e) ==
    \E w \in { "authentication", "invalid request", "not found" } :
        Contains(ToLower(e), w)

SaysQuotaExceeded(e) == ~SaysNonRetryable(e) /\ "quota" \in ToLower(e)

\* transient or unclassified: not quota-exceeded, not of a surfaced code
SaysRetryable(e) ==
    /\ ~SaysNonRetryable(e)
    /\ ~("quota" \in ToLower(e))
    /\ ~ \E code \in SurfacedCodes : HasCode(e, code)

FailedWith(i, Says(_)) == ~calls[i].ok /\ Says(calls[i].err)

\* C3: for 1 <= N <= MaxAttempts, when the first N-1 invocations fail with a
\* retryable error (transient or unclassified, not quota) and the N-th
\* succeeds, WithRetry returns that success and fn has been invoked exactly N
\* times; and after fewer than MaxAttempts such failures WithRetry has not
\* given up (it returns only if its context was cancelled).
C3_RetryUntilSuccess ==
    /\ \A n \in 1 .. maxAttempts :
          ( /\ Len(calls) >= n
            /\ \A i \in 1 .. (n - 1) : FailedWith(i, SaysRetryable)
            /\ calls[n].ok )
          => /\ rPc = "done"
             /\ rResult = ResultResp(calls[n].model)
             /\ Len(calls) = n
    /\ ( /\ rPc = "done"
         /\ Len(calls) < maxAttempts
         /\ \A i \in 1 .. Len(calls) : FailedWith(i, SaysRetryable) )
       => rResult = ResultCancelled

\* C3 witness: MaxAttempts = 3, an unclassified and a transient failure, then
\* the third invocation succeeded and WithRetry returned it.
C3_Witness ==
    /\ maxAttempts = 3
    /\ rPc = "done"
    /\ Len(calls) = 3
    /\ calls[1].err = ErrUnknown
    /\ calls[2].err = ErrServer
    /\ calls[3].ok
    /\ rResult.kind = "resp"

\* C4: an invocation that fails with a non-retryable error (authentication,
\* invalid request, not-found) is the last one: WithRetry has returned that
\* very error, unwrapped, and started no wait after it.
C4_NonRetryableReturnsAtOnce ==
    \A i \in 1 .. Len(calls) :
        FailedWith(i, SaysNonRetryable)
            => /\ i = Len(calls)
               /\ rPc = "done"
               /\ rResult = ResultErr(calls[i].err)
               /\ Len(waits) = i - 1

\* C4 witness: after one retried failure the second invocation failed with a
\* not-found error although a fallback model was left, and WithRetry returned.
C4_Witness ==
    /\ rPc = "done"
    /\ Len(calls) = 2
    /\ calls[2].err = ErrNotFoundQuota
    /\ fallbackIndex < Len(config.FallbackModels)
    /\ attempt < maxAttempts

\* the model the i-th invocation of a run of quota failures must see
ModelOfQuotaCall(i) == IF i = 1 THEN ModelOriginal ELSE config.FallbackModels[i - 1]

\* C5: with FallbackModels = [F1..Fk], MaxAttempts > k and every invocation
\* failing with quota-exceeded, the invocations see the original model, then
\* F1, ..., Fk, each once and in that order; after the invocation with Fk
\* failed WithRetry has returned that quota error with the request's model
\* equal to Fk, and there is no further invocation.
C5_QuotaFallbackOrder ==
    LET k == Len(config.FallbackModels) IN
    ( /\ maxAttempts > k
      /\ \A i \in 1 .. Len(calls) : FailedWith(i, SaysQuotaExceeded) )
    => /\ Len(calls) <= k + 1
       /\ \A i \in 1 .. Len(calls) : calls[i].model = ModelOfQuotaCall(i)
       /\ (Len(calls) = k + 1)
             => /\ rPc = "done"
                /\ rResult = ResultErr(calls[k + 1].err)
                /\ reqModel = ModelOfQuotaCall(k + 1)
       /\ (rPc = "done" /\ Len(calls) <= k) => rResult = ResultCancelled

\* C5 witness: FallbackModels = [fA, fB], three quota failures seen by m0, fA
\* and fB, and WithRetry returned with the request's model at fB.
C5_Witness ==
    /\ config.FallbackModels = <<"fA", "fB">>
    /\ Len(calls) = 3
    /\ \A i \in 1 .. 3 : FailedWith(i, SaysQuotaExceeded)
    /\ rPc = "done"
    /\ rResult.kind = "err"
    /\ reqModel = "fB"

\* C11: an invocation that fails with a types.Error whose code is
\* Authentication, InvalidRequest, ModelNotFound or TokenLimitExceeded is the
\* last one: WithRetry does not retry and has returned that very error.
C11_SurfacedCodesAreNotRetried ==
    \A i \in 1 .. Len(calls) :
        (~calls[i].ok /\ \E code \in SurfacedCodes : HasCode(calls[i].err, code))
            => /\ i = Len(calls)
               /\ rPc = "done"
               /\ rResult = ResultErr(calls[i].err)

\* the fallback entries used up before the i-th invocation: one per earlier
\* quota-exceeded failure, as long as entries were left
FallbacksUsedBefore(i) ==
    Min(Cardinality({ j \in 1 .. (i - 1) : FailedWith(j, SaysQuotaExceeded) }),
        Len(config.FallbackModels))

\* C12 as stated: after a quota-exceeded failure with an untried entry left,
\* the request's model is the next untried entry and WithRetry goes on to
\* invoke the call with it (it never returns before that invocation); with no
\* entry left it has returned the error and there is no further invocation.
C12_QuotaFallbackAlwaysRetries ==
    \A i \in 1 .. Len(calls) :
        FailedWith(i, SaysQuotaExceeded) =>
            LET used == FallbacksUsedBefore(i) IN
            IF used < Len(config.FallbackModels)
            THEN /\ (Len(calls) = i) =>
                        /\ reqModel = config.FallbackModels[used + 1]
                        /\ rPc # "done"
                 /\ (Len(calls) > i) =>
                        calls[i + 1].model = config.FallbackModels[used + 1]
            ELSE /\ i = Len(calls)
                 /\ rPc = "done"
                 /\ rResult = ResultErr(calls[i].err)

\* C12 amended: after a quota-exceeded failure with an untried entry left,
\* the request's model is the next untried entry and the next invocation, if
\* there is one, uses it; WithRetry returns before that invocation only when
\* the failure was the MaxAttempts-th invocation (the attempts-exhausted error
\* wrapping the quota error) or when the context was cancelled in the wait
\* (the cancellation error). With no entry left it has returned the error
\* and there is no further invocation.
C12_QuotaFallbackWhileAttemptsRemain ==
    \A i \in 1 .. Len(calls) :
        FailedWith(i, SaysQuotaExceeded) =>
            LET used == FallbacksUsedBefore(i) IN
            IF used < Len(config.FallbackModels)
            THEN /\ (Len(calls) = i) =>
                        /\ reqModel = config.FallbackModels[used + 1]
                        /\ (rPc = "done") =>
                              \/ /\ i = maxAttempts
                                 /\ rResult = ResultExhausted(calls[i].err)
                              \/ /\ i < maxAttempts
                                 /\ ctxDone
                                 /\ rResult = ResultCancelled
                 /\ (Len(calls) > i) =>
                        calls[i + 1].model = config.FallbackModels[used + 1]
            ELSE /\ i = Len(calls)
                 /\ rPc = "done"
                 /\ rResult = ResultErr(calls[i].err)

\* C12 witness: FallbackModels = [fA]; the first invocation failed with
\* quota-exceeded on m0, the second was made with fA and failed with
\* quota-exceeded too, and WithRetry returned that error.
C12_Witness ==
    /\ config.FallbackModels = <<"fA">>
    /\ Len(calls) = 2
    /\ FailedWith(1, SaysQuotaExceeded)
    /\ calls[1].model = ModelOriginal
    /\ calls[2].model = "fA"
    /\ FailedWith(2, SaysQuotaExceeded)
    /\ rPc = "done"
    /\ rResult = ResultErr(calls[2].err)

\* C13: after a quota-exceeded failure with an untried fallback entry left,
\* the next invocation follows without any wait: the delay WithRetry waits
\* for after that failure is zero.
C13_QuotaFallbackWithoutWait ==
    \A i \in 1 .. Len(waits) :
        ( /\ FailedWith(i, SaysQuotaExceeded)
          /\ FallbacksUsedBefore(i) < Len(config.FallbackModels) )
        => waits[i] = 0

\* rate limit, server error, timeout, connection
SaysTransient(e) ==
    /\ SaysRetryable(e)
    /\ \E w \in RetryablePatterns \ { "quota" } : Contains(ToLower(e), w)

RECURSIVE Pow2(_)
Pow2(n) == IF n = 0 THEN 1 ELSE 2 * Pow2(n - 1)

\* the wait the contract gives after the k-th invocation failed with e
ContractDelay(k, e) ==
    IF RetryInSeconds(e) >= 0
    THEN RetryInSeconds(e) + SuggestedDelayBuffer
    ELSE Min(config.BaseDelay * Pow2(k - 1), maxDelay)

\* C14: the wait started after the k-th invocation failed with a transient
\* error is the duration suggested in the error text plus the one-second
\* buffer when the text holds one, and min(BaseDelay * 2^(k-1), MaxDelay)
\* otherwise.
C14_WaitIsSuggestedOrBackoff ==
    \A k \in 1 .. Len(waits) :
        FailedWith(k, SaysTransient) => waits[k] = ContractDelay(k, calls[k].err)

\* C15: once the context was cancelled while WithRetry was blocked in its
\* wait, there is no further invocation, and when WithRetry has returned it
\* returned the cancellation error that wraps the context's error.
C15_CancelledWaitReturns ==
    cancelledInWait =>
        /\ rPc \in { "wait", "done" }
        /\ Len(calls) = Len(waits)
        /\ (rPc = "done") => rResult = ResultCancelled

\* C15 witness: the context was cancelled during the wait after the second
\* failed invocation, and WithRetry returned the cancellation error.
C15_Witness ==
    /\ cancelledInWait
    /\ rPc = "done"
    /\ rResult = ResultCancelled
    /\ Len(calls) = 2
    /\ Len(waits) = 2
    /\ attempt < maxAttempts

\* C16: when all MaxAttempts invocations failed with a transient error,
\* WithRetry has returned the error that wraps the last invocation's error
\* and states the attempt count; after fewer such failures it has surfaced
\* no error (it has returned only if its context was cancelled).
C16_ExhaustedWrapsLastError ==
    (\A i \in 1 .. Len(calls) : FailedWith(i, SaysTransient)) =>
        /\ (Len(calls) = maxAttempts) =>
              /\ rPc = "done"
              /\ rResult.kind = "err"
              /\ rResult.wrapped
              /\ rResult.err = calls[maxAttempts].err
              /\ rResult.attempts = Len(calls)
        /\ (Len(calls) < maxAttempts /\ rPc = "done") => rResult = ResultCancelled

\* C16 witness: MaxAttempts = 3 and three transient failures, the last one a
\* server error, wrapped in the error WithRetry returned.
C16_Witness ==
    /\ config.MaxAttempts = 3
    /\ Len(calls) = 3
    /\ \A i \in 1 .. 3 : FailedWith(i, SaysTransient)
    /\ calls[3].err = ErrServer
    /\ rPc = "done"
    /\ rResult.wrapped
    /\ rResult.attempts = 3

\* the attempts the contract allows: MaxAttempts, 5 when it is not positive
\* (a nil config is DefaultRetryConfig)
AllowedAttempts == IF config.MaxAttempts <= 0 THEN 5 ELSE config.MaxAttempts

\* every step of WithRetry or of its caller moves this forward
RetryProgress ==
    Len(calls) + attempt + (IF rPc = "done" THEN 1 ELSE 0)
    + (IF ctxDone THEN 1 ELSE 0)

\* C17: fn is invoked at most MaxAttempts times (5 for a nil config or a
\* MaxAttempts that is not positive), quota fallbacks included, and at least
\* once before WithRetry returns; and WithRetry returns: until it has, an
\* invocation or the end of a wait is due, and every step moves it forward
\* within the bound.
C17_BoundedAttempts ==
    /\ [](/\ Len(calls) <= AllowedAttempts
          /\ (rPc = "done") => Len(calls) >= 1
          /\ (rPc = "call") => attempt <= AllowedAttempts
          /\ (rPc = "wait") => (timerMayWin \/ ctxDone)
          /\ RetryProgress <= 2 * AllowedAttempts + 3)
    /\ [][RetryProgress' > RetryProgress]_retryVars

\* C17 witness: MaxAttempts = 0 and WithRetry returned after five invocations.
C17_Witness ==
    /\ config.MaxAttempts = 0
    /\ Len(calls) = 5
    /\ rPc = "done"

(***************************************************************************)
(* Claims about the client Conversation.                                   *)
(***************************************************************************)
\* msgs without its k oldest removable messages
RECURSIVE EvictOldest(_, _, _)
EvictOldest(msgs, k, preserveSystem) ==
    IF k = 0 \/ Removable(msgs, preserveSystem) = { } THEN msgs
    ELSE EvictOldest(RemoveAt(msgs, SetMin(Removable(msgs, preserveSystem))),
                     k - 1, preserveSystem)

\* the eviction counts that bring the estimate within MaxTokens
FittingEvictions(msgs, preserveSystem) ==
    { k \in 0 .. Cardinality(Removable(msgs, preserveSystem)) :
        EstimateTokens(EvictOldest(msgs, k, preserveSystem)) <= cMaxTokens }

\* C6: when TruncateToFit(preserveSystem) is called with the estimate over
\* MaxTokens and evicting the k >= 1 oldest removable messages is the smallest
\* oldest-first eviction that fits, the call succeeds, the estimate afterwards
\* is at most MaxTokens, and exactly those k messages are gone, the others
\* remaining in their order.
C6_TruncateEvictsSmallestPrefix ==
    LET pre == truncLast.pre
        ps == truncLast.preserveSystem
    IN ( /\ truncLast.called
         /\ truncLast.err # ErrNoClientModel
         /\ EstimateTokens(pre) > cMaxTokens
         /\ FittingEvictions(pre, ps) # { } )
       => /\ truncLast.err = ErrNil
          /\ EstimateTokens(truncLast.post) <= cMaxTokens
          /\ truncLast.post = EvictOldest(pre, SetMin(FittingEvictions(pre, ps)), ps)

(***************************************************************************)
(* Streaming: the callback contract and the agreement with Complete.       *)
(***************************************************************************)
\* the callback sequence of the contract: non-final chunks with delta text
\* and no finish reason, then exactly one final chunk, nothing after it
WellFormedChunks(ds) ==
    /\ Len(ds) >= 1
    /\ ds[Len(ds)].finish # ""
    /\ \A i \in 1 .. Len(ds) - 1 : ds[i].finish = "" /\ DeltaText(ds[i]) # << >>

\* C7: whenever an adapter's Stream returned without error, the callback was
\* invoked with zero or more non-final chunks (non-empty delta text, empty
\* finish reason) and then exactly once with a final chunk, and never after it.
C7_StreamCallbackSequence ==
    (sPc = "done" /\ sResult = ErrNil) => WellFormedChunks(delivered)

RECURSIVE ConcatDeltas(_)
ConcatDeltas(ds) ==
    IF ds = << >> THEN << >> ELSE DeltaText(Head(ds)) \o ConcatDeltas(Tail(ds))

\* C8: for the same request against the deterministic backend, when Stream
\* and Complete of an adapter both returned without error, the delta texts
\* of the delivered chunks, joined in delivery order, are the text of the
\* message Complete returned.
C8_StreamedTextEqualsComplete ==
    ( /\ sPc = "done"
      /\ sResult = ErrNil
      /\ completeRet.called
      /\ completeRet.err = ErrNil )
    => ConcatDeltas(delivered) = completeRet.text

\* C8 witness: the OpenAI adapter streamed two chunks with text, the second
\* one final, and Complete returned the same two-character text.
C8_Witness ==
    /\ adapter = "openai"
    /\ sPc = "done"
    /\ sResult = ErrNil
    /\ Len(delivered) = 2
    /\ delivered[2].finish # ""
    /\ completeRet.called
    /\ completeRet.err = ErrNil
    /\ completeRet.text = <<"a", "b">>
    /\ ConcatDeltas(delivered) = <<"a", "b">>

(***************************************************************************)
(* Send and SendStream: what a failed call leaves in the conversation.     *)
(***************************************************************************)
\* C9: whenever Send or SendStream has returned an error after adding the
\* user message, that user message is no longer in the conversation.
C9_FailedSendRemovesUserMessage ==
    (sendPc = "returned" /\ sendErr # ErrNil)
    => \A i \in DOMAIN cMessages : cMessages[i].ID # sendUserID

(***************************************************************************)
(* Claims about the Client.                                                *)
(***************************************************************************)
\* the providers that have the model id in the index
OwnersOf(index, m) == { n \in ProviderNames : Model(n, m) \in index }

RejectedRegistrationChangesNothing ==
    /\ regLast.returned
    /\ regPc = "idle"
    /\ mu = "free"
    /\ providers = regLast.providersBefore
    /\ modelIndex = regLast.indexBefore
    /\ ~regLast.initialized
    /\ ~regLast.askedModels

RegisteredTwice ==
    regLast.called /\ regLast.providersBefore[regLast.provider.name] # NoProvider

\* C19 as stated: RegisterProvider with a name that is already registered
\* fails with an error of code DuplicateProvider and changes nothing.
C19_DuplicateFailsWithDuplicateProvider ==
    RegisteredTwice =>
        /\ HasCode(regLast.err, "DUPLICATE_PROVIDER")
        /\ RejectedRegistrationChangesNothing

\* C19 amended: RegisterProvider with a name that is already registered fails
\* with the InvalidConfig error that says the provider is already registered,
\* and changes nothing: the provider map and the model index are as before,
\* and the rejected provider was neither initialized nor asked for its models.
C19_DuplicateFailsAndChangesNothing ==
    RegisteredTwice =>
        /\ regLast.err = ErrAlreadyRegistered
        /\ HasCode(regLast.err, ErrCodeInvalidConfig)
        /\ RejectedRegistrationChangesNothing

\* C19 witness: p1 is registered with its model, and a second provider named
\* p1 was rejected; the first one is still bound to the name.
C19_Witness ==
    /\ regLast.called
    /\ regLast.provider.id = 3
    /\ regLast.err = ErrAlreadyRegistered
    /\ providers["p1"].id = 1
    /\ Model("p1", "m1") \in modelIndex

\* C20: every read dispatch makes of the provider map or of the model index
\* is made with the Client's read lock held and while no RegisterProvider
\* holds the write lock.
C20_DispatchReadsUnderReadLock ==
    \A x \in reads : x.rlocked /\ ~x.writerActive

(***************************************************************************)
(* Claims about the adapters' Stream and the stream callback.              *)
(***************************************************************************)
\* C21: once the stream callback has returned an error on a chunk, Stream
\* has returned, its result is that error, and the failed invocation is the
\* last one the callback received.
C21_CallbackErrorStopsStream ==
    (cbFailedAt # 0) =>
        /\ sPc = "done"
        /\ sResult = ErrCallback
        /\ Len(delivered) = cbFailedAt

\* C21 witness: the callback failed on the first chunk of an OpenAI backend
\* that had more chunks to send, and Stream returned with nothing more delivered.
C21_Witness ==
    /\ adapter = "openai"
    /\ Len(backend) > 1
    /\ cbFailedAt = 1
    /\ Len(delivered) = 1
    /\ sPc = "done"
    /\ sResult = ErrCallback

\* C22: when Stream has returned an error that did not come from the
\* callback, no chunk with a finish reason was delivered to the callback
\* during the call.
C22_StreamErrorExcludesFinalChunk ==
    (sPc = "done" /\ sResult \notin { ErrNil, ErrNone, ErrCallback }) =>
        \A i \in DOMAIN delivered : delivered[i].finish = ""

(***************************************************************************)
(* Claims about OAIClient, R8Client and SeedConversation.                  *)
(***************************************************************************)
\* the messages the last call left in the conversation beyond those it found
AddedByCall == SubSeq(Messages, Len(lLast.before) + 1, Len(Messages))

\* C23: when SendCompletionRequest has returned an error, the conversation's
\* message list is the one the call found.
C23_FailedCompletionRestoresMessages ==
    (lLast.op = "completion" /\ lPc = "idle" /\ lLast.err # ErrNil) =>
        Messages = lLast.before

\* C23 witness: the provider answered, the assistant Append was rejected, and
\* the user message the call had appended is gone again.
C23_Witness ==
    /\ lLast.op = "completion"
    /\ lPc = "idle"
    /\ lLast.err = ErrAppendAssistant
    /\ TokenCount + Len(lLast.prompt) <= MaxTokens
    /\ Messages = lLast.before

\* C24: when SendStreamRequest has reported an error on errChan, the
\* conversation holds no user message of that call that is not followed by
\* its assistant reply.
C24_FailedStreamLeavesNoDanglingUser ==
    (lLast.op = "stream" /\ lPc = "idle" /\ lLast.err # ErrNil) =>
        \A i \in DOMAIN AddedByCall :
            (AddedByCall[i].Role = RoleUser) =>
                /\ i < Len(AddedByCall)
                /\ AddedByCall[i + 1].Role = RoleAssistant

\* a message of a seeded pair is in the conversation
InConversation(at, role, text) ==
    /\ at \in DOMAIN Messages
    /\ Messages[at] = ChatMessage(role, text, NoParts)

\* C25: after SeedConversation has returned, of every pair it seeded either
\* the user message and the assistant message are both in the conversation
\* or neither is.
C25_SeededPairsAreWhole ==
    (lLast.op = "seed" /\ lPc = "idle") =>
        \A p \in lSeeded :
            InConversation(p.userAt, RoleUser, p.user)
                <=> InConversation(p.assistantAt, RoleAssistant, p.response)

(***************************************************************************)
(* Claims about TruncateToFit's failure.                                   *)
(***************************************************************************)
\* C26: when TruncateToFit is called with the estimate over MaxTokens and no
\* eviction of removable messages brings it within MaxTokens (in particular
\* when nothing is removable), it fails with the code TokenLimitExceeded.
C26_ExhaustedTruncationFailsWithTokenLimit ==
    LET pre == truncLast.pre
        ps == truncLast.preserveSystem
    IN ( /\ truncLast.called
         /\ truncLast.err # ErrNoClientModel
         /\ EstimateTokens(pre) > cMaxTokens
         /\ FittingEvictions(pre, ps) = { } )
       => truncLast.err = ErrTokenLimitExceeded

(***************************************************************************)
(* Claims about Complete, Stream, the middleware and applyDefaults.        *)
(***************************************************************************)
\* the middleware m1 .. mk, in registration order
Upto(k) == [j \in 1 .. k |-> j]

\* ProcessRequest or ProcessResponse of m1 .. mn in that order, each on the
\* output of the one before
InOrder(what) ==
    [i \in 1 .. NumMiddleware |-> Invocation(what, i, Upto(i - 1))]

\* C27: a Complete or Stream call that succeeded ran ProcessRequest of
\* m1 .. mn in that order, each on the previous one's output, then the
\* provider on the last one's output, then ProcessResponse of m1 .. mn in the
\* same order.
C27_MiddlewareAroundEveryCall ==
    (kPc = "idle" /\ kRet.kind \in { "resp", "nil" }) =>
        kLog = InOrder("ProcessRequest")
               \o << Invocation(IF kOp = "stream" THEN "Stream" ELSE "Complete",
                                kProv, Upto(NumMiddleware)) >>
               \o InOrder("ProcessResponse")

\* C28: when a middleware has returned an error the call has returned, the
\* failed invocation is the last one made, the provider was not invoked when
\* the failure was on the request side, and the error returned carries the
\* name of the provider that was resolved for the request's model.
C28_MiddlewareErrorAbortsCall ==
    (kRet.cause \in { "request", "response" }) =>
        /\ kPc = "idle"
        /\ kRet.kind = "err"
        /\ kRet.err # NoError
        /\ kProv \in ProviderNames
        /\ kProv \in kRet.err
        /\ \/ kProv \in OwnersOf(modelIndex, kCur.Model)
           \/ /\ OwnersOf(modelIndex, kCur.Model) = { }
              /\ kProv = clientConfig.DefaultProvider
        /\ kLog # << >>
        /\ kLog[Len(kLog)].what =
              (IF kRet.cause = "request" THEN "ProcessRequest" ELSE "ProcessResponse")
        /\ (kRet.cause = "request") =>
              \A i \in DOMAIN kLog : kLog[i].what = "ProcessRequest"

\* C28 witness: the first of two middleware failed on the request of a
\* Stream call; the second was not run and the error names the provider.
C28_Witness ==
    /\ kOp = "stream"
    /\ NumMiddleware = 2
    /\ kRet.cause = "request"
    /\ Len(kLog) = 1
    /\ kProv = "p1"
    /\ "p1" \in kRet.err

\* a field as applyDefaults is to leave it
Filled(value, unset, default) == IF value = unset THEN default ELSE value

\* C29: once Complete or Stream has applied the defaults, the request's
\* model, max-tokens and temperature are the caller's where the caller set
\* them and the client's defaults where not; when neither names a model the
\* call has failed with InvalidRequest and no middleware or provider was
\* invoked.
C29_DefaultsFillOnlyUnsetFields ==
    (kOp # "") =>
        IF kReq.Model = "" /\ kConfig.DefaultModel = ""
        THEN /\ kPc = "idle"
             /\ kRet.kind = "err"
             /\ HasCode(kRet.err, ErrCodeInvalidRequest)
             /\ kLog = << >>
             /\ kCur = kReq
        ELSE /\ kCur.Model = Filled(kReq.Model, "", kConfig.DefaultModel)
             /\ kCur.MaxTokens = Filled(kReq.MaxTokens, 0, kConfig.DefaultMaxTokens)
             /\ kCur.Temperature = Filled(kReq.Temperature, 0, kConfig.DefaultTemperature)

\* C29 witness: a request without a model and with its own max-tokens went to
\* the provider with the default model, its own max-tokens and the default
\* temperature.
C29_Witness ==
    /\ kReq.Model = ""
    /\ kReq.MaxTokens = 5
    /\ kReq.Temperature = 0
    /\ kCur.Model = "m2"
    /\ kCur.MaxTokens = 5
    /\ kCur.Temperature = 7
    /\ kLog # << >>
    /\ kLog[Len(kLog)].what = "Complete"

\* C30: no operation of a conversation takes or waits for the Client's lock:
\* the client.EstimateTokens call that AddMessage and TruncateToFit make
\* while they hold the conversation's lock never takes c.mu, and is never
\* waiting for it while RegisterProvider holds it.
C30_ConversationNeverTakesClientLock ==
    /\ \A x \in reads : ~x.rlocked
    /\ ~(dPc = "getProvider" /\ mu = "writer")

(***************************************************************************)
(* Claims about the values GetMessages and GetLastMessage return.          *)
(***************************************************************************)
\* C31: a write the caller makes through a value GetMessages or
\* GetLastMessage returned leaves the messages stored in the conversation as
\* they were, and a later AddMessage, TruncateToFit or Clear leaves the
\* messages reachable from a previously returned value as they were.
C31_ReadsReturnCopies ==
    /\ rLast.op \in { "callerSetsElement", "callerEditsMessage" } =>
          rLast.storedAfter = rLast.storedBefore
    /\ rLast.op \in { "AddMessage", "TruncateToFit", "Clear" } =>
          rLast.heldAfter = rLast.heldBefore

(***************************************************************************)
(* Claims about the non-final chunks of a stream.                          *)
(***************************************************************************)
\* the delivered chunks that carry no finish reason
NonFinalChunks(ds) == SelectSeq(ds, LAMBDA r : r.finish = "")

\* C32: for the same request against the deterministic backend, when Stream
\* and Complete of an adapter both returned without error, the delta texts
\* of the delivered chunks with an empty finish reason, joined in delivery
\* order, are the text Complete returned.
C32_NonFinalDeltasEqualComplete ==
    ( /\ sPc = "done"
      /\ sResult = ErrNil
      /\ completeRet.called
      /\ completeRet.err = ErrNil )
    => ConcatDeltas(NonFinalChunks(delivered)) = completeRet.text

(***************************************************************************)
(* Claims about RegisterProvider when GetModels fails.                     *)
(***************************************************************************)
\* C33: when RegisterProvider has returned from a call in which the
\* provider's GetModels failed, it returned nil, the provider is bound to its
\* name, every other name is bound as before the call, and the model index
\* is as before the call.
C33_ModelsFailureKeepsRegistration ==
    (regLast.called /\ regLast.modelsErr /\ regLast.returned) =>
        /\ regLast.err = NoError
        /\ providers[regLast.provider.name] = regLast.provider
        /\ \A n \in ProviderNames \ { regLast.provider.name } :
               providers[n] = regLast.providersBefore[n]
        /\ modelIndex = regLast.indexBefore

\* C33 witness: p1 is registered with its model m1; then the registration of
\* p2, whose GetModels failed, has returned.
C33_Witness ==
    /\ regLast.called
    /\ regLast.modelsErr
    /\ regLast.returned
    /\ regPc = "idle"
    /\ regLast.provider.name = "p2"
    /\ regLast.provider.models # { }
    /\ providers["p1"] # NoProvider
    /\ providers["p2"] = regLast.provider
    /\ regLast.indexBefore # { }
    /\ modelIndex = regLast.indexBefore

(***************************************************************************)
(* Claims about the termination of TruncateToFit.                          *)
(***************************************************************************)
\* C34: a TruncateToFit call on a conversation of n messages has returned
\* after at most n evictions, and each eviction removed exactly one message:
\* the conversation is shorter by the number of evictions, and what is left
\* are messages of the conversation before the call, in their order.
C34_TruncateEvictsAtMostEveryMessage ==
    truncLast.called =>
        /\ truncLast.evicted <= Len(truncLast.pre)
        /\ Len(truncLast.post) = Len(truncLast.pre) - truncLast.evicted
        /\ truncLast.post =
              SelectSeq(truncLast.pre,
                        LAMBDA m : \E i \in 1 .. Len(truncLast.post) :
                                      truncLast.post[i] = m)

\* C34 witness: a TruncateToFit call on three messages evicted two of them
\* and returned nil with the last one left.
C34_Witness ==
    /\ truncLast.called
    /\ Len(truncLast.pre) = 3
    /\ truncLast.evicted = 2
    /\ truncLast.err = ErrNil
    /\ Len(truncLast.post) = 1

(***************************************************************************)
(* Claims about what a successful Send or SendStream appends.              *)
(***************************************************************************)
\* the messages the running or last Send or SendStream call appended
AppendedBySend == SelectSeq(cMessages, LAMBDA m : m.ID >= sendUserID)

\* the last call was SendStream and client.Stream was reached
WasSendStream == sResult # ErrNone

\* C35: when Send or SendStream has returned nil, the call appended exactly
\* two messages: the user message and then one assistant message whose text
\* is the response text; for SendStream that text is the delta texts handed
\* to the callback, joined in delivery order.
C35_SuccessfulSendAppendsUserAndAssistant ==
    (sendPc = "returned" /\ sendErr = ErrNil) =>
        /\ Len(AppendedBySend) = 2
        /\ AppendedBySend[1].Role = RoleUser
        /\ AppendedBySend[2].Role = RoleAssistant
        /\ AppendedBySend[2].Text = IF WasSendStream THEN ConcatDeltas(delivered)
                                    ELSE FullText(backend)

(***************************************************************************)
(* Claims about the channels of SendStreamRequest.                         *)
(***************************************************************************)
\* responseChan and errChan are each closed at most once, exactly once when
\* the call has returned, and at most one error was sent on errChan
ClosedOnceEach ==
    /\ responseChan.closes <= 1
    /\ errChan.closes <= 1
    /\ errChan.sent + errChan.late <= 1
    /\ hPc = "done" => (responseChan.closes = 1 /\ errChan.closes = 1)

\* C36: every SendStreamRequest call closes responseChan and errChan exactly
\* once each, sends at most one error on errChan, and the consumer that
\* receives from both channels eventually sees both closed.
C36_BothChannelsClosedAndSeen ==
    /\ []ClosedOnceEach
    /\ <>(seenClosed = { "responseChan", "errChan" })

\* C40: in R8Client.SendStreamRequest nothing is sent on responseChan or
\* errChan after it was closed.
C40_NoSendAfterClose ==
    hClient = "r8" => (responseChan.late = 0 /\ errChan.late = 0)

(***************************************************************************)
(* Claims about the compensating removal under concurrent sends.           *)
(***************************************************************************)
\* C38: when a SendCompletionRequest call that had appended its user
\* message failed, its RemoveLastMessageIfRole(user) removed a message, and
\* the message removed is one that this call appended.
C38_RemovalTakesOwnUserMessage ==
    (qLast.failed /\ qLast.appended) => qLast.removed = qLast.by

(***************************************************************************)
(* Claims about the running estimate of a client Conversation.             *)
(***************************************************************************)
\* C37: in every reachable state of a conversation mutated through
\* AddMessage, TruncateToFit and Clear, what GetTokenCount returns
\* (c.estimatedTokens) is the sum of the estimates of the stored messages.
C37_TokenCountIsSumOfEstimates ==
    estimatedTokens = EstimateTokens(cMessages)

(***************************************************************************)
(* Claims about the determinism of dispatch.                               *)
(***************************************************************************)
\* C39: when two getProviderForModel calls in a row looked up the same model
\* id with the same model index and the same registered providers, and
\* neither was stopped by the runtime, they returned the same provider (or
\* both an error).
C39_DispatchIsDeterministic ==
    ( /\ dLast.called
      /\ dPc = "idle"
      /\ dLast.kind # "fatal"
      /\ dLast.prev # << >> )
    => LET prev == dLast.prev[1]
       IN ( /\ prev.model = dLast.model
            /\ prev.index = dLast.index
            /\ prev.providers = dLast.providers )
          => (dLast.kind = prev.kind /\ dLast.provider = prev.provider)

====
